---- MODULE Spec2Model ----
(***************************************************************************)
(* A model of the habit server's analytics pipeline (analytics.py), the    *)
(* storage it reads and writes, and the HTTP handlers of main.py that      *)
(* touch the same collections.                                             *)
(*                                                                         *)
(* Conventions.                                                            *)
(*  - A calendar date is its day ordinal (an integer).  An ISO date string *)
(*    is the pair of its decimal digits <<tens, units>>, compared the way  *)
(*    Python compares strings (lexicographically).                         *)
(*  - A Python dict is the sequence of its <<key, value>> items in         *)
(*    insertion order, keys distinct.                                      *)
(*  - A completion value is <<"bool", 0|1>> (False, True) or <<"num", n>>. *)
(*  - A Mongo collection is the sequence of its documents in natural order.*)
(***************************************************************************)
EXTENDS Integers, Sequences, FiniteSets, TLC

VARIABLES
    nIn,                     \* normalizer harness: the raw record, days, user
    nOut,                    \* normalizer harness: the normalized completions
    nPc,                     \* normalizer harness: "input" or "done"
    subscription_collection, \* sequence of [userId, status]
    habit_collection,        \* sequence of [userId, habits]
    group_collection,        \* sequence of [members, habits]
    analytics_collection,    \* sequence of [userId, analytics]
    user_collection,         \* sequence of [id, email]
    missingKeys,             \* names of the API keys absent from the environment
    runs,                    \* run id -> the frame of one generate_all_analytics
    faults,                  \* number of injected external / storage failures
    log,                     \* the external calls, delays and appends, in order
    reqs,                    \* request id -> the frame of one HTTP handler
    user_id_mapping          \* the webhook's dict: Stripe customer -> user id

vars == <<nIn, nOut, nPc, subscription_collection, habit_collection,
          group_collection, analytics_collection, user_collection,
          missingKeys, runs, faults, log, reqs, user_id_mapping>>

normVars == <<nIn, nOut, nPc>>

storeVars == <<subscription_collection, habit_collection, group_collection,
               analytics_collection, user_collection>>

runVars == <<missingKeys, runs, faults, log>>

(***************************************************************************)
(* Bounds of the model.                                                    *)
(***************************************************************************)
\* The current UTC day (datetime.utcnow().date()) as a day ordinal.
Today == 21
\* The largest lookback window the normalizer harness draws.
MaxDays == 3
\* The largest number of raw completion entries the harness draws.
MaxCompl == 2

(***************************************************************************)
(* Dates and ISO strings.                                                  *)
(***************************************************************************)
\* date.isoformat(): zero-padded decimal digits of the day.
isoformat(d) == <<d \div 10, d % 10>>

\* datetime.fromisoformat(s).date()
fromisoformat(s) == s[1] * 10 + s[2]

\* Python's str < str on two ISO strings of the same length.
StrLess(a, b) == \/ a[1] < b[1]
                 \/ a[1] = b[1] /\ a[2] < b[2]

(***************************************************************************)
(* Python dicts as item sequences.                                         *)
(***************************************************************************)
HasKey(d, key) == \E k \in 1..Len(d) : d[k][1] = key

\* d[key], for a key that is present
Get(d, key) == d[CHOOSE k \in 1..Len(d) : d[k][1] = key][2]

\* SetItem as setdefault: a key that is present keeps its value
SetItemKeepFirst(d, key, value) ==
    IF HasKey(d, key) THEN d ELSE Append(d, <<key, value>>)

\* d[key] = value: replace in place, or append a new item
SetItem(d, key, value) ==
    IF HasKey(d, key)
    THEN [k \in 1..Len(d) |-> IF d[k][1] = key THEN <<key, value>> ELSE d[k]]
    ELSE Append(d, <<key, value>>)

RECURSIVE DictUpdate(_, _)
\* d.update(e): the items of e are set one by one, in e's order
DictUpdate(d, e) ==
    IF e = <<>> THEN d
    ELSE DictUpdate(SetItem(d, e[1][1], e[1][2]), Tail(e))

RECURSIVE InsertSorted(_, _)
InsertSorted(item, s) ==
    IF s = <<>> THEN <<item>>
    ELSE IF StrLess(item[1], s[1][1]) THEN <<item>> \o s
    ELSE <<s[1]>> \o InsertSorted(item, Tail(s))

RECURSIVE SortedItems(_)
\* dict(sorted(d.items())): the items in ascending key order
SortedItems(d) ==
    IF d = <<>> THEN <<>>
    ELSE InsertSorted(d[Len(d)], SortedItems(SubSeq(d, 1, Len(d) - 1)))

(***************************************************************************)
(* The time-series normalizer.                                             *)
(***************************************************************************)
False == <<"bool", 0>>
True == <<"bool", 1>>
Zero == <<"num", 0>>

\* start_date = (utcnow() - timedelta(days=days)).date()
StartDate(days) == Today - days

\* end_date = (utcnow() - timedelta(days=1)).date()
EndDate == Today - 1

\* DefaultValue with the numeric default lost: every type fills with False
DefaultValueAlwaysFalse(type) == False

\* DefaultValue deciding by the boolean type: every other type fills with 0
DefaultValueUnlessBoolean(type) == IF type = "boolean" THEN False ELSE Zero

\* 0 if the type is numeric or rating, else False
DefaultValue(type) == IF type \in {"numeric", "rating"} THEN Zero ELSE False

\* all_dates: one default item per day of range((end_date - start_date).days + 1)
AllDates(type, days) ==
    [x \in 1..(EndDate - StartDate(days) + 1) |->
        <<isoformat(StartDate(days) + (x - 1)), DefaultValue(type)>>]

\* the date test of the two comprehensions that select the raw completions
InRange(date, days) == fromisoformat(date) >= StartDate(days)

RECURSIVE ExistingCompletions(_, _)
\* existing_completions of get_user_habit_data
ExistingCompletions(completions, days) ==
    IF completions = <<>> THEN <<>>
    ELSE IF InRange(completions[1][1], days)
         THEN <<completions[1]>> \o ExistingCompletions(Tail(completions), days)
         ELSE ExistingCompletions(Tail(completions), days)

RECURSIVE UserCompletionsOfAnyone(_, _, _)
\* UserCompletions with the userId test lost: every member's entries count
UserCompletionsOfAnyone(completions, user_id, days) ==
    IF completions = <<>> THEN <<>>
    ELSE LET c == completions[Len(completions)]
             rest == UserCompletionsOfAnyone(
                         SubSeq(completions, 1, Len(completions) - 1),
                         user_id, days)
         IN IF InRange(c.date, days)
            THEN SetItem(rest, c.date, c.completed)
            ELSE rest

RECURSIVE UserCompletions(_, _, _)
\* user_completions of get_user_group_habit_data: a dict comprehension, so a
\* repeated date keeps its first position and takes its last value
UserCompletions(completions, user_id, days) ==
    IF completions = <<>> THEN <<>>
    ELSE LET c == completions[Len(completions)]
             rest == UserCompletions(SubSeq(completions, 1, Len(completions) - 1),
                                     user_id, days)
         IN IF c.userId = user_id /\ InRange(c.date, days)
            THEN SetItem(rest, c.date, c.completed)
            ELSE rest

\* The HabitForAnalytics view of one habit (name, type and the dense
\* completions; category and config are carried along and never read).
HabitForAnalytics(name, type, completions) ==
    [name |-> name, type |-> type, completions |-> completions]

\* habit.get("type", HabitType.BOOLEAN) of a group habit
GroupHabitType(habit) == IF habit.type = "none" THEN "boolean" ELSE habit.type

\* the first document of a collection matching userId, as a sequence of
\* zero or one documents (find_one)
FindOneByUser(collection, user_id) ==
    LET hits == {k \in 1..Len(collection) : collection[k].userId = user_id}
    IN IF hits = {} THEN <<>>
       ELSE <<collection[CHOOSE k \in hits : \A m \in hits : k <= m]>>

\* the loop body of get_user_habit_data for one habit
NormalizePersonal(habit, days) ==
    HabitForAnalytics(habit.name, habit.type,
        SortedItems(DictUpdate(AllDates(habit.type, days),
                               ExistingCompletions(habit.completions, days))))

\* the loop body of get_user_group_habit_data for one habit
NormalizeGroup(habit, user_id, days) ==
    HabitForAnalytics(habit.name, GroupHabitType(habit),
        SortedItems(DictUpdate(AllDates(habit.type, days),
                               UserCompletions(habit.completions, user_id, days))))

\* get_user_habit_data: [] without a document or with an empty habit list,
\* else one HabitForAnalytics per habit, in the document's order
get_user_habit_data(collection, user_id, days) ==
    LET found == FindOneByUser(collection, user_id)
    IN IF found = <<>> \/ found[1].habits = <<>> THEN <<>>
       ELSE [k \in 1..Len(found[1].habits) |->
                NormalizePersonal(found[1].habits[k], days)]

RECURSIVE Flatten(_)
Flatten(ss) == IF ss = <<>> THEN <<>> ELSE ss[1] \o Flatten(Tail(ss))

\* the groups of find({"members": user_id}), in collection order
GroupsOf(collection, user_id) ==
    SelectSeq(collection,
              LAMBDA g : \E m \in 1..Len(g.members) : g.members[m] = user_id)

\* get_user_group_habit_data: one HabitForAnalytics per habit of every group
\* the user is a member of
get_user_group_habit_data(collection, user_id, days) ==
    LET groups == GroupsOf(collection, user_id)
    IN Flatten([g \in 1..Len(groups) |->
                  [k \in 1..Len(groups[g].habits) |->
                      NormalizeGroup(groups[g].habits[k], user_id, days)]])

(***************************************************************************)
(* The normalizer harness: the raw record is drawn, then normalized.       *)
(***************************************************************************)
NormUsers == {"u1", "u2"}

\* the types a stored habit may carry: the three of HabitType, none (the key
\* is missing) and one that HabitType does not know
HabitTypes == {"boolean", "numeric", "rating", "none", "mood"}

\* The days a raw record may mention: before the window, inside it, today
\* and tomorrow.
RawDates == (Today - MaxDays - 1)..(Today + 1)

RawValues == {True, <<"num", 5>>}

\* Sequences over S of length at most n
RECURSIVE SeqsUpTo(_, _)
SeqsUpTo(S, n) ==
    IF n = 0 THEN {<<>>}
    ELSE LET shorter == SeqsUpTo(S, n - 1)
         IN shorter \cup {Append(s, x) : s \in shorter, x \in S}

DistinctKeys(d) == \A a, b \in 1..Len(d) : d[a][1] = d[b][1] => a = b

\* the raw completions dicts of a personal habit
RawDicts ==
    {d \in SeqsUpTo({<<isoformat(day), v>> : day \in RawDates, v \in RawValues},
                    MaxCompl) : DistinctKeys(d)}

\* the raw completions lists of a group habit
RawLists ==
    SeqsUpTo({[userId |-> u, date |-> isoformat(day), completed |-> v] :
                 u \in NormUsers, day \in RawDates, v \in RawValues}, MaxCompl)

Idle ==
    /\ subscription_collection = <<>>
    /\ habit_collection = <<>>
    /\ group_collection = <<>>
    /\ analytics_collection = <<>>
    /\ user_collection = <<>>
    /\ missingKeys = {}
    /\ runs = <<>>
    /\ faults = 0
    /\ log = <<>>
    /\ reqs = <<>>
    /\ user_id_mapping = <<>>

NormInit ==
    /\ Idle
    /\ nPc = "input"
    /\ nOut = <<>>
    /\ \E kind \in {"personal", "group"}, type \in HabitTypes, days \in 1..MaxDays :
         \E completions \in IF kind = "personal" THEN RawDicts ELSE RawLists :
            nIn = [kind |-> kind, type |-> type, days |-> days, user |-> "u1",
                   completions |-> completions]

\* the drawn raw record as a stored habit
RawHabit == [id |-> "h", name |-> "Habit", type |-> nIn.type,
             completions |-> nIn.completions]

\* get_user_habit_data on one habit of the user's document
NormalizePersonalStep ==
    /\ nPc = "input"
    /\ nIn.kind = "personal"
    /\ nOut' = get_user_habit_data(
                   <<[userId |-> nIn.user, habits |-> <<RawHabit>>]>>,
                   nIn.user, nIn.days)[1].completions
    /\ nPc' = "done"
    /\ UNCHANGED <<nIn, storeVars, runVars, reqs, user_id_mapping>>

\* get_user_group_habit_data on one habit of one of the user's groups
NormalizeGroupStep ==
    /\ nPc = "input"
    /\ nIn.kind = "group"
    /\ nOut' = get_user_group_habit_data(
                   <<[members |-> <<"u2", nIn.user>>, habits |-> <<RawHabit>>]>>,
                   nIn.user, nIn.days)[1].completions
    /\ nPc' = "done"
    /\ UNCHANGED <<nIn, storeVars, runVars, reqs, user_id_mapping>>

NormNext == NormalizePersonalStep \/ NormalizeGroupStep

SpecNorm == NormInit /\ [][NormNext]_vars

(***************************************************************************)
(* The analytics run: generate_all_analytics, one action per section of    *)
(* its code between two awaits or external calls.                          *)
(***************************************************************************)
\* days: int = 14, the default window of both normalizer functions
DefaultDays == 14
\* The largest number of subscription records drawn.
MaxSubs == 2
\* The largest number of external-request and storage failures injected.
MaxFaults == 1

UserIds == {"u1", "u2"}

\* What a generator returns: the parsed response model (message.parsed), or
\* the plain empty list [] of its except branch.
Parsed == "parsed"
EmptyList == "[]"

\* The environment variable each generator reads its API key from.
AggregateKey == "OPENAI_API_KEY_HABITAI_AGGREGATE"
IndividualKey == "OPENAI_API_KEY_HABITAI_INDIVIDUAL"
SuccessPatternsKey == "OPENAI_API_KEY_HABITAI_SUCCESS_PATTERNS"
CorrelationsKey == "OPENAI_API_KEY_HABITAI_CORRELATIONS"

\* The frame of a run that has not started.
IdleRun ==
    [pc |-> "idle", premium_users |-> <<>>, idx |-> 1, habits |-> <<>>,
     key_insights |-> EmptyList,
     individual_habit_key_insights |-> <<>>,
     success_failure_patterns |-> <<>>,
     actionable_recommendations |-> <<>>,
     correlation_insights |-> <<>>,
     h |-> 1, analytics |-> <<>>, error |-> "none"]

\* get_premium_users: the userId of every subscription with status "active",
\* in scan order, one entry per subscription record
get_premium_users(collection) ==
    LET active == SelectSeq(collection, LAMBDA sub : sub.status = "active")
    IN [k \in 1..Len(active) |-> active[k].userId]

\* HasHabitData with the guard lost: every user enters the pipeline
HasHabitDataAlways(habits) == TRUE

\* the condition of the if that guards the per-user pipeline
HasHabitData(habits) ==
    Len(habits) > 0 /\ \E k \in 1..Len(habits) : habits[k].completions # <<>>

\* The outcomes of one external request: a parsed response, or an error
\* caught by the generator's except branch (a fault, while the budget lasts).
Outcomes == {Parsed} \cup (IF faults < MaxFaults THEN {EmptyList} ELSE {})

\* Event with the delay after a call lost: only the print is left
EventUnpaced(op, r, user, habit) ==
    [op |-> IF op = "sleep" THEN "print" ELSE op, run |-> r, user |-> user,
     habit |-> habit]

\* A log entry: an external call, a pacing delay or an append.
Event(op, r, user, habit) == [op |-> op, run |-> r, user |-> user, habit |-> habit]

\* CurrentUser with the users' passes interleaved: the user changes from one
\* habit to the next
CurrentUserByHabit(r) ==
    runs[r].premium_users[((runs[r].idx + runs[r].h)
                              % Len(runs[r].premium_users)) + 1]

\* the user the run is at
CurrentUser(r) == runs[r].premium_users[runs[r].idx]

\* CurrentHabit with the per-habit loop running over the list backwards
CurrentHabitReversed(r) == runs[r].habits[Len(runs[r].habits) + 1 - runs[r].h]

\* the habit the per-habit loop is at
CurrentHabit(r) == runs[r].habits[runs[r].h]

\* An exception leaves generate_all_analytics: nothing in it, nor in
\* run_analytics, catches one.
Raise(r, exception) ==
    runs' = [runs EXCEPT ![r].pc = "aborted", ![r].error = exception]

\* The sections of a run that hold the event loop: the generators make their
\* request with the synchronous client and the delay is time.sleep, so from
\* the group read to the append's await nothing else is scheduled.
SyncPcs == {"aggregate", "individual", "patterns", "recommendations",
            "correlations", "build", "hung"}

\* run r can take a step: no other run holds the event loop
Scheduled(r) == \A o \in DOMAIN runs \ {r} : runs[o].pc \notin SyncPcs

\* premium_users = await get_premium_users(subscription_collection)
StartRun(r) ==
    /\ runs[r].pc = "idle"
    /\ Scheduled(r)
    /\ runs' = [runs EXCEPT ![r].pc = "loop",
                            ![r].premium_users =
                                get_premium_users(subscription_collection),
                            ![r].idx = 1]
    /\ UNCHANGED <<normVars, storeVars, missingKeys, faults, log, reqs,
                   user_id_mapping>>

\* FetchHabits with the normalized completions written back to the stored
\* habits
FetchHabitsWritingBack(r) ==
    /\ runs[r].pc = "loop"
    /\ Scheduled(r)
    /\ runs[r].idx <= Len(runs[r].premium_users)
    /\ LET habits == get_user_habit_data(habit_collection, CurrentUser(r),
                                         DefaultDays)
       IN /\ runs' = [runs EXCEPT ![r].pc = "fetch_group", ![r].habits = habits]
          /\ habit_collection' =
                [k \in 1..Len(habit_collection) |->
                    IF habit_collection[k].userId = CurrentUser(r)
                    THEN [habit_collection[k] EXCEPT !.habits =
                            [h \in 1..Len(@) |->
                                [@[h] EXCEPT !.completions = habits[h].completions]]]
                    ELSE habit_collection[k]]
    /\ UNCHANGED <<normVars, subscription_collection, group_collection,
                   analytics_collection, user_collection, missingKeys, faults,
                   log, reqs, user_id_mapping>>

\* for user_id in premium_users: habits = await get_user_habit_data(...)
FetchHabits(r) ==
    /\ runs[r].pc = "loop"
    /\ Scheduled(r)
    /\ runs[r].idx <= Len(runs[r].premium_users)
    /\ runs' = [runs EXCEPT ![r].pc = "fetch_group",
                            ![r].habits = get_user_habit_data(
                                habit_collection, CurrentUser(r), DefaultDays)]
    /\ UNCHANGED <<normVars, storeVars, missingKeys, faults, log, reqs,
                   user_id_mapping>>

\* the for loop is exhausted: generate_all_analytics returns
FinishRun(r) ==
    /\ runs[r].pc = "loop"
    /\ Scheduled(r)
    /\ runs[r].idx > Len(runs[r].premium_users)
    /\ runs' = [runs EXCEPT ![r].pc = "done"]
    /\ UNCHANGED <<normVars, storeVars, missingKeys, faults, log, reqs,
                   user_id_mapping>>

\* FetchGroupHabits with the personal habits read a second time
FetchGroupHabitsRereading(r) ==
    /\ runs[r].pc = "fetch_group"
    /\ Scheduled(r)
    /\ LET habits == get_user_habit_data(habit_collection, CurrentUser(r),
                                         DefaultDays)
                         \o get_user_group_habit_data(
                                group_collection, CurrentUser(r), DefaultDays)
       IN runs' = IF HasHabitData(habits)
                  THEN [runs EXCEPT ![r].pc = "aggregate", ![r].habits = habits]
                  ELSE [runs EXCEPT ![r].pc = "loop", ![r].habits = habits,
                                    ![r].idx = @ + 1]
    /\ UNCHANGED <<normVars, storeVars, missingKeys, faults, log, reqs,
                   user_id_mapping>>

\* group_habits = await get_user_group_habit_data(...); habits.extend(...);
\* then the if: the pipeline is entered, or the loop moves to the next user
FetchGroupHabits(r) ==
    /\ runs[r].pc = "fetch_group"
    /\ Scheduled(r)
    /\ LET habits == runs[r].habits \o get_user_group_habit_data(
                         group_collection, CurrentUser(r), DefaultDays)
       IN runs' = IF HasHabitData(habits)
                  THEN [runs EXCEPT ![r].pc = "aggregate", ![r].habits = habits]
                  ELSE [runs EXCEPT ![r].pc = "loop", ![r].habits = habits,
                                    ![r].idx = @ + 1]
    /\ UNCHANGED <<normVars, storeVars, missingKeys, faults, log, reqs,
                   user_id_mapping>>

\* key_insights = await get_aggregate_key_insights(habits); time.sleep(1);
\* the four per-habit dicts are created empty
GetAggregateKeyInsights(r) ==
    /\ runs[r].pc = "aggregate"
    /\ Scheduled(r)
    /\ IF AggregateKey \in missingKeys
       THEN Raise(r, "OpenAIError") /\ UNCHANGED <<faults, log>>
       ELSE \E res \in Outcomes :
              /\ runs' = [runs EXCEPT ![r].pc = "individual",
                                      ![r].key_insights = res,
                                      ![r].individual_habit_key_insights = <<>>,
                                      ![r].success_failure_patterns = <<>>,
                                      ![r].actionable_recommendations = <<>>,
                                      ![r].correlation_insights = <<>>,
                                      ![r].h = 1]
              /\ faults' = IF res = EmptyList THEN faults + 1 ELSE faults
              /\ log' = log \o <<Event("aggregate_key_insights", r,
                                       CurrentUser(r), "*"),
                                 Event("sleep", r, CurrentUser(r), "*")>>
    /\ UNCHANGED <<normVars, storeVars, missingKeys, reqs, user_id_mapping>>

\* habit_insights = await get_individual_habit_key_insights(habit);
\* individual_habit_key_insights[habit.name] = habit_insights; time.sleep(1)
GetIndividualHabitKeyInsights(r) ==
    /\ runs[r].pc = "individual"
    /\ Scheduled(r)
    /\ IF IndividualKey \in missingKeys
       THEN Raise(r, "OpenAIError") /\ UNCHANGED <<faults, log>>
       ELSE \E res \in Outcomes :
              /\ runs' = [runs EXCEPT ![r].pc = "patterns",
                                      ![r].individual_habit_key_insights =
                                          SetItem(@, CurrentHabit(r).name, res)]
              /\ faults' = IF res = EmptyList THEN faults + 1 ELSE faults
              /\ log' = log \o <<Event("individual_habit_key_insights", r,
                                       CurrentUser(r), CurrentHabit(r).name),
                                 Event("sleep", r, CurrentUser(r),
                                       CurrentHabit(r).name)>>
    /\ UNCHANGED <<normVars, storeVars, missingKeys, reqs, user_id_mapping>>

\* patterns = await get_success_failure_patterns(habits, habit.name);
\* success_failure_patterns[habit.name] = patterns; time.sleep(1)
GetSuccessFailurePatterns(r) ==
    /\ runs[r].pc = "patterns"
    /\ Scheduled(r)
    /\ IF SuccessPatternsKey \in missingKeys
       THEN Raise(r, "OpenAIError") /\ UNCHANGED <<faults, log>>
       ELSE \E res \in Outcomes :
              /\ runs' = [runs EXCEPT ![r].pc = "recommendations",
                                      ![r].success_failure_patterns =
                                          SetItem(@, CurrentHabit(r).name, res)]
              /\ faults' = IF res = EmptyList THEN faults + 1 ELSE faults
              /\ log' = log \o <<Event("success_failure_patterns", r,
                                       CurrentUser(r), CurrentHabit(r).name),
                                 Event("sleep", r, CurrentUser(r),
                                       CurrentHabit(r).name)>>
    /\ UNCHANGED <<normVars, storeVars, missingKeys, reqs, user_id_mapping>>

\* recommendations = await get_actionable_recommendations(habit);
\* actionable_recommendations[habit.name] = recommendations; time.sleep(1)
GetActionableRecommendations(r) ==
    /\ runs[r].pc = "recommendations"
    /\ Scheduled(r)
    /\ IF IndividualKey \in missingKeys
       THEN Raise(r, "OpenAIError") /\ UNCHANGED <<faults, log>>
       ELSE \E res \in Outcomes :
              /\ runs' = [runs EXCEPT ![r].pc = "correlations",
                                      ![r].actionable_recommendations =
                                          SetItem(@, CurrentHabit(r).name, res)]
              /\ faults' = IF res = EmptyList THEN faults + 1 ELSE faults
              /\ log' = log \o <<Event("actionable_recommendations", r,
                                       CurrentUser(r), CurrentHabit(r).name),
                                 Event("sleep", r, CurrentUser(r),
                                       CurrentHabit(r).name)>>
    /\ UNCHANGED <<normVars, storeVars, missingKeys, reqs, user_id_mapping>>

\* GetCorrelationInsights with the per-habit loop not moving on to the next
\* habit
GetCorrelationInsightsRepeating(r) ==
    /\ runs[r].pc = "correlations"
    /\ Scheduled(r)
    /\ IF CorrelationsKey \in missingKeys
       THEN Raise(r, "OpenAIError") /\ UNCHANGED <<faults, log>>
       ELSE \E res \in Outcomes :
              /\ runs' = [runs EXCEPT ![r].pc = IF runs[r].h < Len(runs[r].habits)
                                                THEN "individual" ELSE "build",
                                      ![r].correlation_insights =
                                          SetItem(@, CurrentHabit(r).name, res)]
              /\ faults' = IF res = EmptyList THEN faults + 1 ELSE faults
              /\ log' = log \o <<Event("correlation_insights", r,
                                       CurrentUser(r), CurrentHabit(r).name),
                                 Event("sleep", r, CurrentUser(r),
                                       CurrentHabit(r).name)>>
    /\ UNCHANGED <<normVars, storeVars, missingKeys, reqs, user_id_mapping>>

\* correlations = await get_correlation_insights(habits, habit.name);
\* correlation_insights[habit.name] = correlations; time.sleep(1); then the
\* next habit, or the end of the per-habit loop
GetCorrelationInsights(r) ==
    /\ runs[r].pc = "correlations"
    /\ Scheduled(r)
    /\ IF CorrelationsKey \in missingKeys
       THEN Raise(r, "OpenAIError") /\ UNCHANGED <<faults, log>>
       ELSE \E res \in Outcomes :
              /\ runs' = [runs EXCEPT ![r].pc = IF runs[r].h < Len(runs[r].habits)
                                                THEN "individual" ELSE "build",
                                      ![r].correlation_insights =
                                          SetItem(@, CurrentHabit(r).name, res),
                                      ![r].h = @ + 1]
              /\ faults' = IF res = EmptyList THEN faults + 1 ELSE faults
              /\ log' = log \o <<Event("correlation_insights", r,
                                       CurrentUser(r), CurrentHabit(r).name),
                                 Event("sleep", r, CurrentUser(r),
                                       CurrentHabit(r).name)>>
    /\ UNCHANGED <<normVars, storeVars, missingKeys, reqs, user_id_mapping>>

\* The values of a dict, as a set
Values(d) == {d[k][2] : k \in 1..Len(d)}

\* Analytics(...) validates its fields: keyInsights must be a KeyInsightList
\* and every value of the four dicts the list model of its field; the plain
\* list [] of a failed generator is none of them.
AnalyticsValid(frame) ==
    /\ frame.key_insights = Parsed
    /\ Values(frame.individual_habit_key_insights) \subseteq {Parsed}
    /\ Values(frame.success_failure_patterns) \subseteq {Parsed}
    /\ Values(frame.actionable_recommendations) \subseteq {Parsed}
    /\ Values(frame.correlation_insights) \subseteq {Parsed}

\* the Analytics snapshot of a frame, published at logical time `now`
Snapshot(frame, now) ==
    [publishedAt |-> now,
     keyInsights |-> frame.key_insights,
     individualHabitKeyInsights |-> frame.individual_habit_key_insights,
     successFailurePatterns |-> frame.success_failure_patterns,
     actionableRecommendations |-> frame.actionable_recommendations,
     correlationInsights |-> frame.correlation_insights]

\* analytics = Analytics(publishedAt=..., keyInsights=key_insights, ...):
\* a pydantic ValidationError leaves the function when a field is invalid.
\* The publish time is the number of events logged so far.
BuildAnalytics(r) ==
    /\ runs[r].pc = "build"
    /\ Scheduled(r)
    /\ IF AnalyticsValid(runs[r])
       THEN runs' = [runs EXCEPT ![r].pc = "append",
                                 ![r].analytics = Snapshot(runs[r], Len(log))]
       ELSE Raise(r, "ValidationError")
    /\ UNCHANGED <<normVars, storeVars, missingKeys, faults, log, reqs,
                   user_id_mapping>>

\* PushAnalytics with $set in place of $push: the list is replaced
PushAnalyticsReplacing(collection, user_id, snapshot) ==
    LET hits == {k \in 1..Len(collection) : collection[k].userId = user_id}
    IN IF hits = {}
       THEN Append(collection, [userId |-> user_id, analytics |-> <<snapshot>>])
       ELSE LET first == CHOOSE k \in hits : \A m \in hits : k <= m
            IN [collection EXCEPT ![first].analytics = <<snapshot>>]

\* PushAnalytics with an upsert that never finds the document: it inserts
PushAnalyticsInserting(collection, user_id, snapshot) ==
    Append(collection, [userId |-> user_id, analytics |-> <<snapshot>>])

\* update_one({"userId": user_id}, {"$push": {"analytics": snapshot}},
\* upsert=True): the first matching document gets the snapshot at the end of
\* its list; without a match a document holding only the snapshot is inserted
PushAnalytics(collection, user_id, snapshot) ==
    LET hits == {k \in 1..Len(collection) : collection[k].userId = user_id}
    IN IF hits = {}
       THEN Append(collection, [userId |-> user_id, analytics |-> <<snapshot>>])
       ELSE LET first == CHOOSE k \in hits : \A m \in hits : k <= m
            IN [collection EXCEPT
                   ![first].analytics = Append(@, snapshot)]

\* AppendAnalytics with a storage error that strikes after the write
AppendAnalyticsPartial(r) ==
    /\ runs[r].pc = "append"
    /\ Scheduled(r)
    /\ analytics_collection' = PushAnalytics(analytics_collection,
                                   CurrentUser(r), runs[r].analytics)
    /\ \/ /\ runs' = [runs EXCEPT ![r].pc = "loop", ![r].idx = @ + 1]
          /\ log' = Append(log, Event("append", r, CurrentUser(r), "*"))
          /\ UNCHANGED faults
       \/ /\ faults < MaxFaults
          /\ faults' = faults + 1
          /\ Raise(r, "StorageError")
          /\ UNCHANGED log
    /\ UNCHANGED <<normVars, subscription_collection, habit_collection,
                   group_collection, user_collection, missingKeys, reqs,
                   user_id_mapping>>

\* await analytics_collection.update_one(...): the push is applied and the
\* loop moves to the next user, or the storage raises and nothing is written
AppendAnalytics(r) ==
    /\ runs[r].pc = "append"
    /\ Scheduled(r)
    /\ \/ /\ analytics_collection' = PushAnalytics(analytics_collection,
                                         CurrentUser(r), runs[r].analytics)
          /\ runs' = [runs EXCEPT ![r].pc = "loop", ![r].idx = @ + 1]
          /\ log' = Append(log, Event("append", r, CurrentUser(r), "*"))
          /\ UNCHANGED faults
       \/ /\ faults < MaxFaults
          /\ faults' = faults + 1
          /\ Raise(r, "StorageError")
          /\ UNCHANGED <<analytics_collection, log>>
    /\ UNCHANGED <<normVars, subscription_collection, habit_collection,
                   group_collection, user_collection, missingKeys, reqs,
                   user_id_mapping>>

(***************************************************************************)
(* The stores a run starts from.                                           *)
(***************************************************************************)
Exercise == [id |-> "h1", name |-> "Exercise", type |-> "boolean",
             completions |-> <<<<isoformat(Today - 2), True>>>>]

Water == [id |-> "h2", name |-> "Water", type |-> "numeric",
          completions |-> <<>>]

Read == [id |-> "gh1", name |-> "Read", type |-> "boolean",
         completions |-> <<[userId |-> "u2", date |-> isoformat(Today - 1),
                            completed |-> True],
                           [userId |-> "u1", date |-> isoformat(Today - 3),
                            completed |-> True]>>]

\* a user's habits document: none, or one with one of these habit lists
HabitDocs(u) ==
    {<<>>} \cup {<<[userId |-> u, habits |-> hs]>> :
                    hs \in {<<>>, <<Water>>, <<Exercise, Water>>}}

GroupStores ==
    {<<>>,
     <<[id |-> "g1", adminId |-> "u1", members |-> <<"u1", "u2">>,
        habits |-> <<>>]>>,
     <<[id |-> "g1", adminId |-> "u1", members |-> <<"u1">>,
        habits |-> <<Read>>]>>}

\* a snapshot of an earlier run
OldSnapshot ==
    [publishedAt |-> 0, keyInsights |-> Parsed,
     individualHabitKeyInsights |-> <<>>, successFailurePatterns |-> <<>>,
     actionableRecommendations |-> <<>>, correlationInsights |-> <<>>]

\* the analytics collection: empty, or u1's document with an earlier snapshot
AnalyticsStores ==
    {<<>>, <<[userId |-> "u1", analytics |-> <<OldSnapshot>>]>>}

SubscriptionStores ==
    SeqsUpTo({[userId |-> u, status |-> st] :
                 u \in UserIds, st \in {"active", "canceled"}}, MaxSubs)

\* the environments: every key set, or the key of one generator missing
Environments == {{}, {AggregateKey}, {CorrelationsKey}}

\* The users registered before the run.
Registered == <<[id |-> "u1", email |-> "e1"], [id |-> "u2", email |-> "e2"]>>

NormIdle == nIn = <<>> /\ nOut = <<>> /\ nPc = "off"

Init ==
    /\ NormIdle
    /\ subscription_collection \in SubscriptionStores
    /\ \E d1 \in HabitDocs("u1"), d2 \in HabitDocs("u2") :
          habit_collection = d1 \o d2
    /\ group_collection \in GroupStores
    /\ analytics_collection \in AnalyticsStores
    /\ user_collection = Registered
    /\ missingKeys \in Environments
    /\ runs = <<IdleRun>>
    /\ faults = 0
    /\ log = <<>>
    /\ reqs = <<>>
    /\ user_id_mapping = <<>>

Next ==
    \/ \E r \in DOMAIN runs : StartRun(r)
    \/ \E r \in DOMAIN runs : FetchHabits(r)
    \/ \E r \in DOMAIN runs : FetchGroupHabits(r)
    \/ \E r \in DOMAIN runs : GetAggregateKeyInsights(r)
    \/ \E r \in DOMAIN runs : GetIndividualHabitKeyInsights(r)
    \/ \E r \in DOMAIN runs : GetSuccessFailurePatterns(r)
    \/ \E r \in DOMAIN runs : GetActionableRecommendations(r)
    \/ \E r \in DOMAIN runs : GetCorrelationInsights(r)
    \/ \E r \in DOMAIN runs : BuildAnalytics(r)
    \/ \E r \in DOMAIN runs : AppendAnalytics(r)
    \/ \E r \in DOMAIN runs : FinishRun(r)

Spec == Init /\ [][Next]_vars

(***************************************************************************)
(* The run over stores chosen for the order of its calls: u1 has two       *)
(* personal habits and, in one of the stores, a group habit that bears the *)
(* name of the second one.                                                 *)
(***************************************************************************)
\* a group habit named like the personal habit Water
Hydrate == [id |-> "gh2", name |-> "Water", type |-> "boolean",
            completions |-> <<[userId |-> "u1", date |-> isoformat(Today - 1),
                               completed |-> True]>>]

CallsInit ==
    /\ NormIdle
    /\ subscription_collection \in SubscriptionStores
    /\ habit_collection = <<[userId |-> "u1", habits |-> <<Exercise, Water>>],
                            [userId |-> "u2", habits |-> <<Water>>]>>
    /\ group_collection \in
          {<<>>, <<[id |-> "g1", adminId |-> "u1", members |-> <<"u1", "u2">>,
                    habits |-> <<Hydrate>>]>>}
    /\ analytics_collection = <<>>
    /\ user_collection = Registered
    /\ missingKeys \in Environments
    /\ runs = <<IdleRun>>
    /\ faults = 0
    /\ log = <<>>
    /\ reqs = <<>>
    /\ user_id_mapping = <<>>

SpecCalls == CallsInit /\ [][Next]_vars

(***************************************************************************)
(* The run with an external call that never returns.                       *)
(***************************************************************************)
\* the sections of a run that make a request to the external service
CallPcs == {"aggregate", "individual", "patterns", "recommendations",
            "correlations"}

\* client.beta.chat.completions.parse(...) is called and does not return:
\* the call is synchronous, so the run stays in it and holds the event loop
Hang(r) ==
    /\ runs[r].pc \in CallPcs
    /\ Scheduled(r)
    /\ runs' = [runs EXCEPT ![r].pc = "hung"]
    /\ UNCHANGED <<normVars, storeVars, missingKeys, faults, log, reqs,
                   user_id_mapping>>

HangNext ==
    \/ \E r \in DOMAIN runs : StartRun(r)
    \/ \E r \in DOMAIN runs : FetchHabits(r)
    \/ \E r \in DOMAIN runs : FetchGroupHabits(r)
    \/ \E r \in DOMAIN runs : GetAggregateKeyInsights(r)
    \/ \E r \in DOMAIN runs : GetIndividualHabitKeyInsights(r)
    \/ \E r \in DOMAIN runs : GetSuccessFailurePatterns(r)
    \/ \E r \in DOMAIN runs : GetActionableRecommendations(r)
    \/ \E r \in DOMAIN runs : GetCorrelationInsights(r)
    \/ \E r \in DOMAIN runs : BuildAnalytics(r)
    \/ \E r \in DOMAIN runs : AppendAnalytics(r)
    \/ \E r \in DOMAIN runs : FinishRun(r)
    \/ \E r \in DOMAIN runs : Hang(r)

SpecHang == CallsInit /\ [][HangNext]_vars

(***************************************************************************)
(* The HTTP handlers of main.py that write or read the analytics           *)
(* collection, one action per await, and the run interleaved with them.    *)
(***************************************************************************)
\* The largest number of HTTP requests handled.
MaxReqs == 2

\* The ids the store hands out (ObjectId): the k-th user inserted gets the
\* k-th of them.
ObjectIds == <<"u1", "u2", "u3", "u4", "u5", "u6">>

Emails == {"e1", "e3"}

\* The frame of a request that has not arrived.
IdleReq == [op |-> "none", pc |-> "idle", email |-> "", id |-> "",
            status |-> 0, body |-> <<>>]

\* A handler runs only while no run holds the event loop.
EventLoopFree == \A r \in DOMAIN runs : runs[r].pc \notin SyncPcs

\* the response of a handler
Respond(q, status, body) ==
    reqs' = [reqs EXCEPT ![q].pc = "responded", ![q].status = status,
                         ![q].body = body]

\* create_user: if await user_collection.find_one({"email": user.email}):
\* raise HTTPException(400)
CreateUserFindEmail(q, email) ==
    /\ reqs[q].pc = "idle"
    /\ EventLoopFree
    /\ IF \E k \in 1..Len(user_collection) : user_collection[k].email = email
       THEN reqs' = [reqs EXCEPT ![q].op = "create_user", ![q].email = email,
                                 ![q].pc = "responded", ![q].status = 400]
       ELSE reqs' = [reqs EXCEPT ![q].op = "create_user", ![q].email = email,
                                 ![q].pc = "insert_user"]
    /\ UNCHANGED <<normVars, storeVars, runVars, user_id_mapping>>

\* create_user: result = await user_collection.insert_one(user_dict)
CreateUserInsertUser(q) ==
    /\ reqs[q].pc = "insert_user"
    /\ EventLoopFree
    /\ Len(user_collection) < Len(ObjectIds)
    /\ LET id == ObjectIds[Len(user_collection) + 1]
       IN /\ user_collection' = Append(user_collection,
                                       [id |-> id, email |-> reqs[q].email])
          /\ reqs' = [reqs EXCEPT ![q].pc = "insert_habits", ![q].id = id]
    /\ UNCHANGED <<normVars, subscription_collection, habit_collection,
                   group_collection, analytics_collection, runVars,
                   user_id_mapping>>

\* create_user: await habit_collection.insert_one(UserHabits(userId, []))
CreateUserInsertHabits(q) ==
    /\ reqs[q].pc = "insert_habits"
    /\ EventLoopFree
    /\ habit_collection' = Append(habit_collection,
                                  [userId |-> reqs[q].id, habits |-> <<>>])
    /\ reqs' = [reqs EXCEPT ![q].pc = "insert_analytics"]
    /\ UNCHANGED <<normVars, subscription_collection, user_collection,
                   group_collection, analytics_collection, runVars,
                   user_id_mapping>>

\* create_user: await analytics_collection.insert_one(UserAnalytics(userId,
\* [])); return user
CreateUserInsertAnalytics(q) ==
    /\ reqs[q].pc = "insert_analytics"
    /\ EventLoopFree
    /\ analytics_collection' = Append(analytics_collection,
                                      [userId |-> reqs[q].id, analytics |-> <<>>])
    /\ Respond(q, 200, <<>>)
    /\ UNCHANGED <<normVars, subscription_collection, user_collection,
                   group_collection, habit_collection, runVars,
                   user_id_mapping>>

\* get_analytics: the stored document's list, or an empty UserAnalytics when
\* the user has no document
GetAnalytics(q, user_id) ==
    /\ reqs[q].pc = "idle"
    /\ EventLoopFree
    /\ LET found == FindOneByUser(analytics_collection, user_id)
       IN reqs' = [reqs EXCEPT ![q].op = "get_analytics", ![q].id = user_id,
                               ![q].pc = "responded", ![q].status = 200,
                               ![q].body = IF found = <<>> THEN <<>>
                                           ELSE found[1].analytics]
    /\ UNCHANGED <<normVars, storeVars, runVars, user_id_mapping>>

HttpInit ==
    /\ NormIdle
    /\ subscription_collection = <<[userId |-> "u1", status |-> "active"],
                                   [userId |-> "u2", status |-> "active"]>>
    /\ habit_collection = <<[userId |-> "u1", habits |-> <<Exercise, Water>>],
                            [userId |-> "u2", habits |-> <<Water>>]>>
    /\ group_collection = <<>>
    /\ analytics_collection \in AnalyticsStores
    /\ user_collection = Registered
    /\ missingKeys = {}
    /\ runs = <<IdleRun>>
    /\ faults = 0
    /\ log = <<>>
    /\ reqs = [q \in 1..MaxReqs |-> IdleReq]
    /\ user_id_mapping = <<>>

HttpNext ==
    \/ \E r \in DOMAIN runs : StartRun(r)
    \/ \E r \in DOMAIN runs : FetchHabits(r)
    \/ \E r \in DOMAIN runs : FetchGroupHabits(r)
    \/ \E r \in DOMAIN runs : GetAggregateKeyInsights(r)
    \/ \E r \in DOMAIN runs : GetIndividualHabitKeyInsights(r)
    \/ \E r \in DOMAIN runs : GetSuccessFailurePatterns(r)
    \/ \E r \in DOMAIN runs : GetActionableRecommendations(r)
    \/ \E r \in DOMAIN runs : GetCorrelationInsights(r)
    \/ \E r \in DOMAIN runs : BuildAnalytics(r)
    \/ \E r \in DOMAIN runs : AppendAnalytics(r)
    \/ \E r \in DOMAIN runs : FinishRun(r)
    \/ \E q \in DOMAIN reqs, email \in Emails : CreateUserFindEmail(q, email)
    \/ \E q \in DOMAIN reqs : CreateUserInsertUser(q)
    \/ \E q \in DOMAIN reqs : CreateUserInsertHabits(q)
    \/ \E q \in DOMAIN reqs : CreateUserInsertAnalytics(q)
    \/ \E q \in DOMAIN reqs, k \in 1..3 : GetAnalytics(q, ObjectIds[k])

SpecHttp == HttpInit /\ [][HttpNext]_vars

(***************************************************************************)
(* The HTTP handlers of main.py that change a user's personal habits, and  *)
(* the run interleaved with them.                                          *)
(***************************************************************************)
\* the position of the first document of the user that holds a habit with
\* the id, 0 without one: the filter {"userId": ..., "habits.id": ...}
FindHabitDoc(collection, user_id, habit_id) ==
    LET hits == {k \in 1..Len(collection) :
                    /\ collection[k].userId = user_id
                    /\ \E h \in 1..Len(collection[k].habits) :
                          collection[k].habits[h].id = habit_id}
    IN IF hits = {} THEN 0 ELSE CHOOSE k \in hits : \A m \in hits : k <= m

\* the position of the first habit of the list with the id: the positional
\* operator habits.$
FirstHabit(habits, habit_id) ==
    CHOOSE h \in 1..Len(habits) :
        /\ habits[h].id = habit_id
        /\ \A m \in 1..(h - 1) : habits[m].id # habit_id

\* the position of the first document of the user, 0 without one
FindDoc(collection, user_id) ==
    LET hits == {k \in 1..Len(collection) : collection[k].userId = user_id}
    IN IF hits = {} THEN 0 ELSE CHOOSE k \in hits : \A m \in hits : k <= m

\* a handler that wrote `after` over `before`: 404 when update_one modified
\* nothing, the message otherwise
WriteHabits(q, op, user_id, after) ==
    /\ habit_collection' = after
    /\ reqs' = [reqs EXCEPT ![q].op = op, ![q].id = user_id,
                            ![q].pc = "responded",
                            ![q].status = IF after = habit_collection
                                          THEN 404 ELSE 200]
    /\ UNCHANGED <<normVars, subscription_collection, group_collection,
                   analytics_collection, user_collection, runVars,
                   user_id_mapping>>

\* toggle_habit_completion: $set habits.$.completions.<date> = completed
ToggleHabitCompletion(q, user_id, habit_id, date, completed) ==
    /\ reqs[q].pc = "idle"
    /\ EventLoopFree
    /\ LET d == FindHabitDoc(habit_collection, user_id, habit_id)
       IN WriteHabits(q, "toggle_habit_completion", user_id,
              IF d = 0 THEN habit_collection
              ELSE LET h == FirstHabit(habit_collection[d].habits, habit_id)
                   IN [habit_collection EXCEPT ![d].habits[h].completions =
                          SetItem(@, date, completed)])

\* update_habit: $set habits.$ = the habit sent
UpdateHabit(q, user_id, habit_id, updated_habit) ==
    /\ reqs[q].pc = "idle"
    /\ EventLoopFree
    /\ LET d == FindHabitDoc(habit_collection, user_id, habit_id)
       IN WriteHabits(q, "update_habit", user_id,
              IF d = 0 THEN habit_collection
              ELSE LET h == FirstHabit(habit_collection[d].habits, habit_id)
                   IN [habit_collection EXCEPT ![d].habits[h] = updated_habit])

\* delete_habit: $pull every habit with the id from the user's list
DeleteHabit(q, user_id, habit_id) ==
    /\ reqs[q].pc = "idle"
    /\ EventLoopFree
    /\ LET d == FindDoc(habit_collection, user_id)
       IN WriteHabits(q, "delete_habit", user_id,
              IF d = 0 THEN habit_collection
              ELSE [habit_collection EXCEPT ![d].habits =
                       SelectSeq(@, LAMBDA h : h.id # habit_id)])

\* delete_all_habits: $set habits = []
DeleteAllHabits(q, user_id) ==
    /\ reqs[q].pc = "idle"
    /\ EventLoopFree
    /\ LET d == FindDoc(habit_collection, user_id)
       IN WriteHabits(q, "delete_all_habits", user_id,
              IF d = 0 THEN habit_collection
              ELSE [habit_collection EXCEPT ![d].habits = <<>>])

\* the habit an update_habit request sends: Exercise renamed
Walk == [Exercise EXCEPT !.name = "Walk"]

HabitsInit ==
    /\ NormIdle
    /\ subscription_collection = <<[userId |-> "u1", status |-> "active"],
                                   [userId |-> "u2", status |-> "active"]>>
    /\ habit_collection = <<[userId |-> "u1", habits |-> <<Exercise, Water>>],
                            [userId |-> "u2", habits |-> <<Water>>]>>
    /\ group_collection \in {<<>>, <<[id |-> "g1", adminId |-> "u1",
                                       members |-> <<"u1">>,
                                       habits |-> <<Read>>]>>}
    /\ analytics_collection = <<>>
    /\ user_collection = Registered
    /\ missingKeys = {}
    /\ runs = <<IdleRun>>
    /\ faults = 0
    /\ log = <<>>
    /\ reqs = [q \in 1..MaxReqs |-> IdleReq]
    /\ user_id_mapping = <<>>

HabitsNext ==
    \/ \E r \in DOMAIN runs : StartRun(r)
    \/ \E r \in DOMAIN runs : FetchHabits(r)
    \/ \E r \in DOMAIN runs : FetchGroupHabits(r)
    \/ \E r \in DOMAIN runs : GetAggregateKeyInsights(r)
    \/ \E r \in DOMAIN runs : GetIndividualHabitKeyInsights(r)
    \/ \E r \in DOMAIN runs : GetSuccessFailurePatterns(r)
    \/ \E r \in DOMAIN runs : GetActionableRecommendations(r)
    \/ \E r \in DOMAIN runs : GetCorrelationInsights(r)
    \/ \E r \in DOMAIN runs : BuildAnalytics(r)
    \/ \E r \in DOMAIN runs : AppendAnalytics(r)
    \/ \E r \in DOMAIN runs : FinishRun(r)
    \/ \E q \in DOMAIN reqs, habit_id \in {"h1", "h2"} :
          ToggleHabitCompletion(q, "u1", habit_id, isoformat(Today - 1), True)
    \/ \E q \in DOMAIN reqs : UpdateHabit(q, "u1", "h1", Walk)
    \/ \E q \in DOMAIN reqs : DeleteHabit(q, "u1", "h2")
    \/ \E q \in DOMAIN reqs : DeleteAllHabits(q, "u1")

SpecHabits == HabitsInit /\ [][HabitsNext]_vars

(***************************************************************************)
(* Two runs of generate_all_analytics on one event loop: each is scheduled *)
(* while the other waits at an await.                                      *)
(***************************************************************************)
OverlapInit ==
    /\ NormIdle
    /\ subscription_collection \in
          {<<[userId |-> "u1", status |-> "active"]>>,
           <<[userId |-> "u1", status |-> "active"],
             [userId |-> "u2", status |-> "active"]>>}
    /\ habit_collection = <<[userId |-> "u1", habits |-> <<Exercise>>],
                            [userId |-> "u2", habits |-> <<Water>>]>>
    /\ group_collection = <<>>
    /\ analytics_collection \in AnalyticsStores
    /\ user_collection = Registered
    /\ missingKeys = {}
    /\ runs = <<IdleRun, IdleRun>>
    /\ faults = 0
    /\ log = <<>>
    /\ reqs = <<>>
    /\ user_id_mapping = <<>>

SpecOverlap == OverlapInit /\ [][Next]_vars

(***************************************************************************)
(* The Stripe webhook of main.py, one action per event type and per await  *)
(* of its handler, and the run interleaved with it.                        *)
(***************************************************************************)
\* the number of webhook events of a behaviour
MaxHooks == 3

Customers == {"c1"}

\* The frame of a webhook request that has not arrived.
IdleHook == [op |-> "none", pc |-> "idle", customer |-> "", user_id |-> "",
             id |-> "", state |-> "", status |-> 0]

\* print("Handling ... event"), print(f"Insert result: ..."): the event as
\* the handler takes it up, and the insert of the created handler
Handled(op, customer, user, id, state) ==
    [op |-> op, customer |-> customer, user |-> user, id |-> id,
     state |-> state]

\* return {"status": "success"}, or the exception leaving the handler
Answer(q, op, status) ==
    reqs' = [reqs EXCEPT ![q].op = op, ![q].pc = "responded",
                         ![q].status = status]

\* d.pop(key, None)
DelItem(d, key) == SelectSeq(d, LAMBDA item : item[1] # key)

\* checkout.session.completed:
\* user_id_mapping[event_data.customer] = event_data.metadata.get('user_id')
CheckoutSessionCompleted(q, customer, user_id) ==
    /\ reqs[q].pc = "idle"
    /\ EventLoopFree
    /\ user_id_mapping' = SetItem(user_id_mapping, customer, user_id)
    /\ Answer(q, "checkout.session.completed", 200)
    /\ log' = Append(log, Handled("checkout.session.completed", customer,
                                  user_id, "", ""))
    /\ UNCHANGED <<normVars, storeVars, missingKeys, runs, faults>>

\* SubscriptionCreated without the test of the mapping: a customer without
\* an entry gets a record that carries no user
SubscriptionCreatedAnyway(q, customer, id, state) ==
    /\ reqs[q].pc = "idle"
    /\ EventLoopFree
    /\ log' = Append(log, Handled("customer.subscription.created", customer,
                                  "", id, state))
    /\ reqs' = [reqs EXCEPT
                  ![q] = [op |-> "customer.subscription.created",
                          pc |-> "insert", customer |-> customer,
                          user_id |-> IF HasKey(user_id_mapping, customer)
                                      THEN Get(user_id_mapping, customer)
                                      ELSE "none",
                          id |-> id, state |-> state, status |-> 0]]
    /\ UNCHANGED <<normVars, storeVars, missingKeys, runs, faults,
                   user_id_mapping>>

\* customer.subscription.created, up to the await of insert_one:
\* user_id = user_id_mapping.get(customer_id); if user_id: the customer is
\* retrieved (an error leaves the handler), else only a print
SubscriptionCreated(q, customer, id, state) ==
    /\ reqs[q].pc = "idle"
    /\ EventLoopFree
    /\ log' = Append(log, Handled("customer.subscription.created", customer,
                                  "", id, state))
    /\ LET user_id == IF HasKey(user_id_mapping, customer)
                      THEN Get(user_id_mapping, customer) ELSE "none"
       IN IF user_id = "none"
          THEN Answer(q, "customer.subscription.created", 200)
               /\ UNCHANGED faults
          ELSE \/ /\ reqs' = [reqs EXCEPT
                                ![q] = [op |-> "customer.subscription.created",
                                        pc |-> "insert", customer |-> customer,
                                        user_id |-> user_id, id |-> id,
                                        state |-> state, status |-> 0]]
                  /\ UNCHANGED faults
               \/ /\ faults < MaxFaults
                  /\ faults' = faults + 1
                  /\ Answer(q, "customer.subscription.created", 500)
    /\ UNCHANGED <<normVars, storeVars, missingKeys, runs, user_id_mapping>>

\* the record insert_one adds
SubscriptionData(frame) ==
    [userId |-> frame.user_id, status |-> frame.state,
     stripeId |-> frame.customer, stripeSubscriptionId |-> frame.id]

\* result = await subscription_collection.insert_one(subscription_data);
\* an error is printed and raised again
SubscriptionCreatedInsert(q) ==
    /\ reqs[q].pc = "insert"
    /\ EventLoopFree
    /\ \/ /\ subscription_collection' =
                Append(subscription_collection, SubscriptionData(reqs[q]))
          /\ reqs' = [reqs EXCEPT ![q].pc = "pop"]
          /\ log' = Append(log, Handled("insert_one", reqs[q].customer,
                                        reqs[q].user_id, reqs[q].id,
                                        reqs[q].state))
          /\ UNCHANGED faults
       \/ /\ faults < MaxFaults
          /\ faults' = faults + 1
          /\ Answer(q, "customer.subscription.created", 500)
          /\ UNCHANGED <<subscription_collection, log>>
    /\ UNCHANGED <<normVars, habit_collection, group_collection,
                   analytics_collection, user_collection, missingKeys, runs,
                   user_id_mapping>>

\* user_id_mapping.pop(customer_id, None); return
SubscriptionCreatedPop(q) ==
    /\ reqs[q].pc = "pop"
    /\ EventLoopFree
    /\ user_id_mapping' = DelItem(user_id_mapping, reqs[q].customer)
    /\ Answer(q, "customer.subscription.created", 200)
    /\ UNCHANGED <<normVars, storeVars, runVars>>

\* SetStatus sparing a canceled record: only a live subscription is updated
SetStatusUnlessCanceled(collection, id, status) ==
    LET hits == {k \in 1..Len(collection) :
                    /\ collection[k].stripeSubscriptionId = id
                    /\ collection[k].status # "canceled"}
    IN IF hits = {} THEN collection
       ELSE [collection EXCEPT
                ![CHOOSE k \in hits : \A m \in hits : k <= m].status = status]

\* update_one({"stripeSubscriptionId": id}, {"$set": {"status": status}}):
\* the first record with the id, if there is one
SetStatus(collection, id, status) ==
    LET hits == {k \in 1..Len(collection) :
                    collection[k].stripeSubscriptionId = id}
    IN IF hits = {} THEN collection
       ELSE [collection EXCEPT
                ![CHOOSE k \in hits : \A m \in hits : k <= m].status = status]

\* a handler that awaits one update_one and returns
UpdateSubscription(q, op, id, state, status) ==
    /\ reqs[q].pc = "idle"
    /\ EventLoopFree
    /\ subscription_collection' = SetStatus(subscription_collection, id, status)
    /\ Answer(q, op, 200)
    /\ log' = Append(log, Handled(op, "", "", id, state))
    /\ UNCHANGED <<normVars, habit_collection, group_collection,
                   analytics_collection, user_collection, missingKeys, runs,
                   faults, user_id_mapping>>

\* customer.subscription.updated: "status": event_data.status
SubscriptionUpdated(q, id, state) ==
    UpdateSubscription(q, "customer.subscription.updated", id, state, state)

\* customer.subscription.deleted: "status": "canceled"
SubscriptionDeleted(q, id) ==
    UpdateSubscription(q, "customer.subscription.deleted", id, "", "canceled")

\* customer.subscription.paused: "status": "paused"
SubscriptionPaused(q, id) ==
    UpdateSubscription(q, "customer.subscription.paused", id, "", "paused")

\* customer.subscription.resumed: "status": event_data.status
SubscriptionResumed(q, id, state) ==
    UpdateSubscription(q, "customer.subscription.resumed", id, state, state)

\* invoice.paid: if subscription_id: "status": "active"
InvoicePaid(q, id) ==
    IF id = "none"
    THEN /\ reqs[q].pc = "idle"
         /\ EventLoopFree
         /\ Answer(q, "invoice.paid", 200)
         /\ log' = Append(log, Handled("invoice.paid", "", "", id, ""))
         /\ UNCHANGED <<normVars, storeVars, missingKeys, runs, faults,
                        user_id_mapping>>
    ELSE UpdateSubscription(q, "invoice.paid", id, "", "active")

\* The process starts again between two requests and two runs: the module
\* level dict is empty again, the collections are as they were.
Restart ==
    /\ user_id_mapping # <<>>
    /\ \A q \in DOMAIN reqs : reqs[q].pc \in {"idle", "responded"}
    /\ \A r \in DOMAIN runs : runs[r].pc \in {"idle", "done", "aborted"}
    /\ user_id_mapping' = <<>>
    /\ log' = Append(log, Handled("restart", "", "", "", ""))
    /\ UNCHANGED <<normVars, storeVars, missingKeys, runs, faults, reqs>>

\* the subscription of u2, created before the first event of the model
Subscribed == [userId |-> "u2", status |-> "active", stripeId |-> "c2",
               stripeSubscriptionId |-> "s2"]

SubscriptionIds == {"s1", "s2"}

WebhookInit ==
    /\ NormIdle
    /\ subscription_collection = <<Subscribed>>
    /\ habit_collection = <<[userId |-> "u1", habits |-> <<>>],
                            [userId |-> "u2", habits |-> <<>>]>>
    /\ group_collection = <<>>
    /\ analytics_collection = <<>>
    /\ user_collection = Registered
    /\ missingKeys = {}
    /\ runs = <<IdleRun>>
    /\ faults = 0
    /\ log = <<>>
    /\ reqs = [q \in 1..MaxHooks |-> IdleHook]
    /\ user_id_mapping = <<>>

\* the frame of the next request to arrive
Arriving ==
    {q \in DOMAIN reqs :
        reqs[q].pc = "idle" /\ \A p \in 1..(q - 1) : reqs[p].pc # "idle"}

\* The events of the webhook, and the run over users without a habit: it
\* scans, reads each user's habits and moves on.
WebhookNext ==
    \/ \E r \in DOMAIN runs : StartRun(r)
    \/ \E r \in DOMAIN runs : FetchHabits(r)
    \/ \E r \in DOMAIN runs : FetchGroupHabits(r)
    \/ \E r \in DOMAIN runs : FinishRun(r)
    \/ \E q \in Arriving, c \in Customers, u \in {"u1", "none"} :
          CheckoutSessionCompleted(q, c, u)
    \/ \E q \in Arriving, c \in Customers, st \in {"active", "incomplete"} :
          SubscriptionCreated(q, c, "s1", st)
    \/ \E q \in DOMAIN reqs : SubscriptionCreatedInsert(q)
    \/ \E q \in DOMAIN reqs : SubscriptionCreatedPop(q)
    \/ \E q \in Arriving, id \in SubscriptionIds, st \in {"active", "past_due"} :
          SubscriptionUpdated(q, id, st)
    \/ \E q \in Arriving, id \in SubscriptionIds : SubscriptionDeleted(q, id)
    \/ \E q \in Arriving, id \in SubscriptionIds : SubscriptionPaused(q, id)
    \/ \E q \in Arriving, id \in SubscriptionIds, st \in {"active", "past_due"} :
          SubscriptionResumed(q, id, st)
    \/ \E q \in Arriving, id \in SubscriptionIds \cup {"none"} :
          InvoicePaid(q, id)
    \/ Restart

SpecWebhook == WebhookInit /\ [][WebhookNext]_vars

(***************************************************************************)
(* The group handlers of main.py, one action per await.  There is one      *)
(* group, g1, whose admin and only member at the start is u1; u2 is a      *)
(* registered user who may join.                                           *)
(***************************************************************************)
\* the number of group requests of a behaviour
MaxCalls == 3

\* The frame of a group request that has not arrived.
IdleCall == [op |-> "none", pc |-> "idle", caller |-> "", value |-> "",
             kept |-> <<>>, status |-> 0]

\* a group habit of g1 with one completion of u1
Yoga == [id |-> "gh1", name |-> "Yoga", type |-> "boolean",
         completions |-> <<[userId |-> "u1", date |-> isoformat(Today - 2),
                            completed |-> True]>>]

\* the habit create_group_habit adds: completions=[]
Stretch == [id |-> "gh2", name |-> "Stretch", type |-> "boolean",
            completions |-> <<>>]

\* the date of the toggle requests
ToggleDate == isoformat(Today - 1)

\* FoundAsAdmin testing the membership instead: any member passes
FoundAsMember(group_id, user_id) ==
    \E k \in 1..Len(group_collection) :
        /\ group_collection[k].id = group_id
        /\ \E m \in 1..Len(group_collection[k].members) :
              group_collection[k].members[m] = user_id

\* find_one({"_id": ObjectId(group_id), "adminId": user_id}) finds a group
FoundAsAdmin(group_id, user_id) ==
    \E k \in 1..Len(group_collection) :
        /\ group_collection[k].id = group_id
        /\ group_collection[k].adminId = user_id

\* find_one({"_id": ObjectId(group_id), "members": user_id}): the groups found
FindAsMember(group_id, user_id) ==
    SelectSeq(group_collection,
              LAMBDA g : /\ g.id = group_id
                         /\ \E m \in 1..Len(g.members) : g.members[m] = user_id)

\* the habits of the group with the id, none when there is no such group
GroupHabits(group_id) ==
    LET group == SelectSeq(group_collection, LAMBDA g : g.id = group_id)
    IN IF group = <<>> THEN <<>> ELSE group[1].habits

\* the members of the group with the id
GroupMembers(group_id) ==
    LET group == SelectSeq(group_collection, LAMBDA g : g.id = group_id)
    IN IF group = <<>> THEN <<>> ELSE group[1].members

\* update_one({"_id": ObjectId(group_id)}, {"$set": update}): the collection
\* after it; a $push or $pull is the $set of the list it leaves
SetGroup(group_id, update) ==
    [k \in 1..Len(group_collection) |->
        IF group_collection[k].id = group_id
        THEN [f \in DOMAIN group_collection[k] |->
                 IF f \in DOMAIN update THEN update[f]
                 ELSE group_collection[k][f]]
        ELSE group_collection[k]]

\* the position habits.$ of a filter with "habits.id": the first habit with
\* the id, 0 when there is none
FirstWithId(habits, habit_id) ==
    LET hits == {k \in 1..Len(habits) : habits[k].id = habit_id}
    IN IF hits = {} THEN 0 ELSE CHOOSE k \in hits : \A m \in hits : k <= m

\* {"$set": {"habits.$": habit}}
SetFirstHabit(habits, habit_id, habit) ==
    IF FirstWithId(habits, habit_id) = 0 THEN habits
    ELSE [habits EXCEPT ![FirstWithId(habits, habit_id)] = habit]

\* habits.$.completions
FirstCompletions(habits, habit_id) ==
    IF FirstWithId(habits, habit_id) = 0 THEN <<>>
    ELSE habits[FirstWithId(habits, habit_id)].completions

\* a $pull from or $push to habits.$.completions, as the list it leaves
SetCompletions(habits, habit_id, completions) ==
    IF FirstWithId(habits, habit_id) = 0 THEN habits
    ELSE [habits EXCEPT ![FirstWithId(habits, habit_id)].completions =
                            completions]

\* a step of a group handler: its frame and the groups collection change
GroupStep(q, frame, groups) ==
    /\ reqs' = [reqs EXCEPT ![q] = frame]
    /\ group_collection' = groups
    /\ UNCHANGED <<normVars, subscription_collection, habit_collection,
                   analytics_collection, user_collection, runVars,
                   user_id_mapping>>

\* the frame of a handler that has answered
Answered(frame, status) == [frame EXCEPT !.pc = "responded", !.status = status]

\* the first await of the handlers that start with the admin's find_one:
\* update_group, create_group_habit, update_group_habit, delete_group_habit
FindAsAdminStep(q, op, user_id, habit_id) ==
    /\ reqs[q].pc = "idle"
    /\ EventLoopFree
    /\ LET frame == [IdleCall EXCEPT !.op = op, !.caller = user_id]
           group == SelectSeq(group_collection, LAMBDA g : g.id = "g1")
           existing == IF group = <<>> THEN <<>>
                       ELSE SelectSeq(group[1].habits,
                                      LAMBDA h : h.id = habit_id)
       IN IF FoundAsAdmin("g1", user_id)
          THEN GroupStep(q, [frame EXCEPT
                               !.pc = "write",
                               !.kept = IF existing = <<>> THEN <<>>
                                        ELSE existing[1].completions],
                         group_collection)
          ELSE GroupStep(q, Answered(frame, 404), group_collection)

\* a write that answers 404 when modified_count is 0
AnswerModified(q, groups) ==
    GroupStep(q, Answered(reqs[q], IF groups = group_collection
                                   THEN 404 ELSE 200), groups)

\* update_group: the find_one with the adminId
UpdateGroup(q, user_id) == FindAsAdminStep(q, "update_group", user_id, "")

\* update_group: update_one({"_id": ...}, {"$set": update_data}), then the
\* group is read again for the response
UpdateGroupSet(q) ==
    /\ reqs[q].pc = "write"
    /\ reqs[q].op = "update_group"
    /\ EventLoopFree
    /\ LET groups == SetGroup("g1", [name |-> "Team"])
       IN GroupStep(q, Answered(reqs[q], IF \E k \in 1..Len(groups) :
                                               groups[k].id = "g1"
                                         THEN 200 ELSE 500), groups)

\* delete_group: delete_one({"_id": ..., "adminId": user_id})
DeleteGroup(q, user_id) ==
    /\ reqs[q].pc = "idle"
    /\ EventLoopFree
    /\ LET frame == [IdleCall EXCEPT !.op = "delete_group", !.caller = user_id]
           groups == SelectSeq(group_collection,
                               LAMBDA g : ~(g.id = "g1" /\ g.adminId = user_id))
       IN GroupStep(q, Answered(frame, IF groups = group_collection
                                       THEN 404 ELSE 200), groups)

\* join_group: the find_one by join code, the member test and the user's
\* find_one
JoinGroup(q, user_id) ==
    /\ reqs[q].pc = "idle"
    /\ EventLoopFree
    /\ LET frame == [IdleCall EXCEPT !.op = "join_group", !.caller = user_id]
           group == SelectSeq(group_collection, LAMBDA g : g.id = "g1")
       IN IF group = <<>>
          THEN GroupStep(q, Answered(frame, 404), group_collection)
          ELSE IF \E m \in 1..Len(group[1].members) :
                     group[1].members[m] = user_id
          THEN GroupStep(q, Answered(frame, 400), group_collection)
          ELSE GroupStep(q, [frame EXCEPT !.pc = "write"], group_collection)

\* join_group: update_one({"_id": ...}, {"$push": {"members": user_id, ...}})
JoinGroupPush(q) ==
    /\ reqs[q].pc = "write"
    /\ reqs[q].op = "join_group"
    /\ EventLoopFree
    /\ LET groups == SetGroup("g1", [members |-> Append(GroupMembers("g1"),
                                                        reqs[q].caller)])
       IN GroupStep(q, Answered(reqs[q], IF \E k \in 1..Len(groups) :
                                               groups[k].id = "g1"
                                         THEN 200 ELSE 500), groups)

\* create_group_habit: the find_one with the adminId
CreateGroupHabit(q, user_id) ==
    FindAsAdminStep(q, "create_group_habit", user_id, "")

\* create_group_habit: update_one({"_id": ...}, {"$push": {"habits": ...}})
CreateGroupHabitPush(q) ==
    /\ reqs[q].pc = "write"
    /\ reqs[q].op = "create_group_habit"
    /\ EventLoopFree
    /\ GroupStep(q, Answered(reqs[q], 200),
                 SetGroup("g1", [habits |-> Append(GroupHabits("g1"),
                                                   Stretch)]))

\* update_group_habit: the find_one with the adminId; the completions of the
\* habit as read are kept for the write
UpdateGroupHabit(q, user_id) ==
    FindAsAdminStep(q, "update_group_habit", user_id, "gh1")

\* update_group_habit: update_one({"_id": ..., "habits.id": habit_id},
\* {"$set": {"habits.$": habit_dict}})
UpdateGroupHabitSet(q) ==
    /\ reqs[q].pc = "write"
    /\ reqs[q].op = "update_group_habit"
    /\ EventLoopFree
    /\ AnswerModified(q, SetGroup("g1",
          [habits |-> SetFirstHabit(GroupHabits("g1"), "gh1",
                          [id |-> "gh1", name |-> "Pilates",
                           type |-> "boolean",
                           completions |-> reqs[q].kept])]))

\* delete_group_habit: the find_one with the adminId
DeleteGroupHabit(q, user_id) ==
    FindAsAdminStep(q, "delete_group_habit", user_id, "gh1")

\* delete_group_habit: update_one({"_id": ...}, {"$pull": {"habits": {"id":
\* habit_id}}})
DeleteGroupHabitPull(q) ==
    /\ reqs[q].pc = "write"
    /\ reqs[q].op = "delete_group_habit"
    /\ EventLoopFree
    /\ AnswerModified(q, SetGroup("g1",
          [habits |-> SelectSeq(GroupHabits("g1"), LAMBDA h : h.id # "gh1")]))

\* toggle_group_habit_completion: the find_one with the member, the lookup of
\* the habit in the group as read; gh1 is boolean, so every value passes the
\* type test
ToggleGroupHabitCompletion(q, user_id, completed) ==
    /\ reqs[q].pc = "idle"
    /\ EventLoopFree
    /\ LET frame == [IdleCall EXCEPT !.op = "toggle_group_habit_completion",
                                     !.caller = user_id, !.value = completed]
           group == FindAsMember("g1", user_id)
       IN IF group = <<>> \/ ~\E k \in 1..Len(group[1].habits) :
                                  group[1].habits[k].id = "gh1"
          THEN GroupStep(q, Answered(frame, 404), group_collection)
          ELSE GroupStep(q, [frame EXCEPT !.pc = "pull"], group_collection)

\* the test before the $push: a bool, or a number greater than 0
HasValue(completed) == completed[1] = "bool" \/ completed[2] > 0

\* toggle_group_habit_completion: update_one(..., {"$pull":
\* {"habits.$.completions": {"userId": user_id, "date": date}}})
ToggleGroupHabitPull(q) ==
    /\ reqs[q].pc = "pull"
    /\ EventLoopFree
    /\ GroupStep(q, IF HasValue(reqs[q].value)
                    THEN [reqs[q] EXCEPT !.pc = "push"]
                    ELSE Answered(reqs[q], 200),
                 SetGroup("g1",
                     [habits |-> SetCompletions(GroupHabits("g1"), "gh1",
                         SelectSeq(FirstCompletions(GroupHabits("g1"), "gh1"),
                                   LAMBDA c : ~(c.userId = reqs[q].caller
                                                /\ c.date = ToggleDate)))]))

\* toggle_group_habit_completion: update_one(..., {"$push":
\* {"habits.$.completions": completion}})
ToggleGroupHabitPush(q) ==
    /\ reqs[q].pc = "push"
    /\ EventLoopFree
    /\ GroupStep(q, Answered(reqs[q], 200),
                 SetGroup("g1",
                     [habits |-> SetCompletions(GroupHabits("g1"), "gh1",
                         Append(FirstCompletions(GroupHabits("g1"), "gh1"),
                                [userId |-> reqs[q].caller,
                                 date |-> ToggleDate,
                                 completed |-> reqs[q].value]))]))

GroupsInit ==
    /\ NormIdle
    /\ subscription_collection = <<>>
    /\ habit_collection = <<>>
    /\ group_collection = <<[id |-> "g1", name |-> "Club", adminId |-> "u1",
                             members |-> <<"u1">>, habits |-> <<Yoga>>]>>
    /\ analytics_collection = <<>>
    /\ user_collection = Registered
    /\ missingKeys = {}
    /\ runs = <<>>
    /\ faults = 0
    /\ log = <<>>
    /\ reqs = [q \in 1..MaxCalls |-> IdleCall]
    /\ user_id_mapping = <<>>

GroupsNext ==
    \/ \E q \in Arriving, u \in UserIds : UpdateGroup(q, u)
    \/ \E q \in DOMAIN reqs : UpdateGroupSet(q)
    \/ \E q \in Arriving, u \in UserIds : DeleteGroup(q, u)
    \/ \E q \in Arriving, u \in UserIds : JoinGroup(q, u)
    \/ \E q \in DOMAIN reqs : JoinGroupPush(q)
    \/ \E q \in Arriving, u \in UserIds : CreateGroupHabit(q, u)
    \/ \E q \in DOMAIN reqs : CreateGroupHabitPush(q)
    \/ \E q \in Arriving, u \in UserIds : UpdateGroupHabit(q, u)
    \/ \E q \in DOMAIN reqs : UpdateGroupHabitSet(q)
    \/ \E q \in Arriving, u \in UserIds : DeleteGroupHabit(q, u)
    \/ \E q \in DOMAIN reqs : DeleteGroupHabitPull(q)
    \/ \E q \in Arriving, u \in UserIds, completed \in {True, Zero} :
          ToggleGroupHabitCompletion(q, u, completed)
    \/ \E q \in DOMAIN reqs : ToggleGroupHabitPull(q)
    \/ \E q \in DOMAIN reqs : ToggleGroupHabitPush(q)

SpecGroups == GroupsInit /\ [][GroupsNext]_vars

(***************************************************************************)
(* Properties of the normalizer.                                           *)
(***************************************************************************)
\* the ISO strings of the window [today - days, today - 1], ascending
WindowKeys(days) == [x \in 1..days |-> isoformat(Today - days + (x - 1))]

\* the keys of a dict, in its order
KeySeq(d) == [k \in 1..Len(d) |-> d[k][1]]

\* the positions of the raw record's entries that the target user recorded
\* at the ISO string key
RecordedAt(key) ==
    {k \in 1..Len(nIn.completions) :
        IF nIn.kind = "personal"
        THEN nIn.completions[k][1] = key
        ELSE nIn.completions[k].userId = nIn.user /\ nIn.completions[k].date = key}

\* the value of the raw record's entry at position k
RecordedValue(k) ==
    IF nIn.kind = "personal" THEN nIn.completions[k][2]
    ELSE nIn.completions[k].completed

Max(S) == CHOOSE m \in S : \A x \in S : x <= m

\* C6: whatever dates the raw record holds, the normalized completions have
\* exactly `days` keys, the dates today-days .. today-1 in ascending order,
\* with no duplicate and no gap.
C6_ExactWindow == nPc = "done" => KeySeq(nOut) = WindowKeys(nIn.days)

\* C7: a completion recorded at a date outside [today-days, today-1] never
\* appears in the normalized completions.
C7_NoLeak ==
    nPc = "done" =>
        \A k \in 1..Len(nOut) :
            /\ fromisoformat(nOut[k][1]) >= Today - nIn.days
            /\ fromisoformat(nOut[k][1]) <= Today - 1

\* C8: every in-window date with a recorded completion carries the recorded
\* value (the latest one recorded for that date), and every in-window date
\* without one carries false for a boolean habit and 0 for a numeric or
\* rating habit.
C8_Values ==
    nPc = "done" =>
        \A day \in (Today - nIn.days)..(Today - 1) :
            LET key == isoformat(day)
            IN /\ HasKey(nOut, key)
               /\ RecordedAt(key) # {} =>
                     Get(nOut, key) = RecordedValue(Max(RecordedAt(key)))
               /\ RecordedAt(key) = {} /\ nIn.type = "boolean" =>
                     Get(nOut, key) = <<"bool", 0>>
               /\ RecordedAt(key) = {} /\ nIn.type \in {"numeric", "rating"} =>
                     Get(nOut, key) = <<"num", 0>>

\* C8 witness: the boolean habit with {d1: true}, days = 3, normalized to
\* {d1: true, d2: false, d3: false}, and a numeric habit with a default-filled
\* date is covered by the same run of the harness.
C8_Witness ==
    /\ nPc = "done"
    /\ nIn.kind = "personal"
    /\ nIn.type = "boolean"
    /\ nIn.days = 3
    /\ nIn.completions = <<<<isoformat(Today - 3), <<"bool", 1>>>>>>
    /\ nOut = << <<isoformat(Today - 3), <<"bool", 1>>>>,
                 <<isoformat(Today - 2), <<"bool", 0>>>>,
                 <<isoformat(Today - 1), <<"bool", 0>>>> >>

\* a well-formed habit of the same user, stored next to the drawn one
Sibling == [id |-> "h0", name |-> "Sibling", type |-> "numeric",
            completions |-> <<<<isoformat(Today - 1), <<"num", 5>>>>>>]

\* the user's normalized habit list when the drawn habit is stored with the
\* sibling after it
WithSibling ==
    IF nIn.kind = "personal"
    THEN get_user_habit_data(
             <<[userId |-> nIn.user, habits |-> <<RawHabit, Sibling>>]>>,
             nIn.user, nIn.days)
    ELSE get_user_group_habit_data(
             <<[members |-> <<"u2", nIn.user>>,
                habits |-> <<RawHabit, [Sibling EXCEPT !.completions = <<>>]>>]>>,
             nIn.user, nIn.days)

\* C22: a habit whose type is missing or is not one of boolean, numeric and
\* rating is tolerated: its normalization completes, the normalization of
\* the user's other habits completes with it, and every in-window date the
\* raw record does not cover carries false.
C22_UnknownTypeTolerated ==
    nIn.type \notin {"boolean", "numeric", "rating"} =>
        LET normalized == WithSibling
            first == normalized[1].completions
            second == normalized[2].completions
        IN /\ Len(normalized) = 2
           /\ normalized[2].type = "numeric"
           /\ \A day \in (Today - nIn.days)..(Today - 1) :
                 /\ HasKey(second, isoformat(day))
                 /\ RecordedAt(isoformat(day)) = {} =>
                       /\ HasKey(first, isoformat(day))
                       /\ Get(first, isoformat(day)) = False
           /\ nPc = "done" => first = nOut

\* C22 witness: a personal habit without a type, recorded on one day of a
\* three-day window, normalized with the two other days filled with false.
C22_Witness ==
    /\ nPc = "done"
    /\ nIn.kind = "personal"
    /\ nIn.type = "none"
    /\ nIn.days = 3
    /\ nIn.completions = <<<<isoformat(Today - 2), True>>>>
    /\ nOut = << <<isoformat(Today - 3), False>>,
                 <<isoformat(Today - 2), True>>,
                 <<isoformat(Today - 1), False>> >>

\* the raw group record with the target user's own entries only
OwnEntries ==
    SelectSeq(nIn.completions, LAMBDA c : c.userId = nIn.user)

\* get_user_group_habit_data on the group habit holding only those entries
NormalizedAlone ==
    get_user_group_habit_data(
        <<[members |-> <<"u2", nIn.user>>,
           habits |-> <<[RawHabit EXCEPT !.completions = OwnEntries]>>]>>,
        nIn.user, nIn.days)[1].completions

\* C16: the normalized completions of a group habit for user u depend only
\* on u's own entries: they are what the habit gives with every other
\* member's entries removed (so two records that agree on u's entries give
\* the same output), and every value in them is the default or a value u
\* recorded at that date.
C16_OwnEntriesOnly ==
    nPc = "done" /\ nIn.kind = "group" =>
        /\ nOut = NormalizedAlone
        /\ \A k \in 1..Len(nOut) :
              \/ nOut[k][2] = DefaultValue(GroupHabitType(RawHabit))
              \/ \E c \in 1..Len(OwnEntries) :
                    /\ OwnEntries[c].date = nOut[k][1]
                    /\ OwnEntries[c].completed = nOut[k][2]

\* C16 witness: u1 and u2 both recorded a completion at the same in-window
\* date of a numeric group habit, u2 the later entry of the list with the
\* value 5, u1 the value true, and u1's output carries true at that date.
C16_Witness ==
    /\ nPc = "done"
    /\ nIn.kind = "group"
    /\ nIn.type = "numeric"
    /\ nIn.days = 2
    /\ nIn.completions =
          <<[userId |-> "u1", date |-> isoformat(Today - 1), completed |-> True],
            [userId |-> "u2", date |-> isoformat(Today - 1),
             completed |-> <<"num", 5>>]>>
    /\ nOut = << <<isoformat(Today - 2), Zero>>, <<isoformat(Today - 1), True>> >>

(***************************************************************************)
(* Properties of the analytics run.                                        *)
(***************************************************************************)
\* the stored personal habits of a user (none without a document)
RawPersonalHabits(u) ==
    LET found == FindOneByUser(habit_collection, u)
    IN IF found = <<>> THEN <<>> ELSE found[1].habits

\* the stored habits of the groups a user is a member of
RawGroupHabits(u) ==
    LET groups == GroupsOf(group_collection, u)
    IN Flatten([g \in 1..Len(groups) |-> groups[g].habits])

\* the number of habits a user has, personal and group
RawHabitCount(u) == Len(RawPersonalHabits(u)) + Len(RawGroupHabits(u))

\* some habit of the user has a recorded completion of the user
HasHistory(u) ==
    \/ \E k \in 1..Len(RawPersonalHabits(u)) :
          RawPersonalHabits(u)[k].completions # <<>>
    \/ \E k \in 1..Len(RawGroupHabits(u)) :
          \E c \in 1..Len(RawGroupHabits(u)[k].completions) :
             RawGroupHabits(u)[k].completions[c].userId = u

\* the history of a user in an analytics collection: the list of the first
\* document found, empty without one
HistoryIn(collection, u) ==
    LET found == FindOneByUser(collection, u)
    IN IF found = <<>> THEN <<>> ELSE found[1].analytics

\* the analytics history of a user
History(u) == HistoryIn(analytics_collection, u)

\* the log entries of run r about user u with operation op
Entries(r, u, op) ==
    {k \in 1..Len(log) : log[k].run = r /\ log[k].user = u /\ log[k].op = op}

\* C1: a failure while processing one eligible user does not keep the users
\* after it in the same run from being processed; stated for the storage
\* error at the append: when it has ended the run, no other user with
\* recorded habit data is left behind the one it failed at.
C1_FailureIsolated ==
    \A r \in DOMAIN runs :
        runs[r].pc = "aborted" /\ runs[r].error = "StorageError" =>
            \A k \in (runs[r].idx + 1)..Len(runs[r].premium_users) :
                \/ runs[r].premium_users[k] = CurrentUser(r)
                \/ ~HasHistory(runs[r].premium_users[k])

\* the per-habit loop of the frame is over for two habits of different names,
\* one individual-insight call returned [] and every other call a response
DegradedTwoHabits(f) ==
    /\ Len(f.habits) = 2
    /\ f.habits[1].name # f.habits[2].name
    /\ f.h = 3
    /\ f.key_insights = Parsed
    /\ Len(f.individual_habit_key_insights) = 2
    /\ Values(f.individual_habit_key_insights) = {Parsed, EmptyList}
    /\ Len(f.success_failure_patterns) = 2
    /\ Values(f.success_failure_patterns) = {Parsed}
    /\ Len(f.actionable_recommendations) = 2
    /\ Values(f.actionable_recommendations) = {Parsed}
    /\ Len(f.correlation_insights) = 2
    /\ Values(f.correlation_insights) = {Parsed}

\* C2: for a user with two habits where the insight call of one habit failed
\* and the others succeeded, the snapshot is still built, with the empty list
\* under the failed habit's name, and the append is reached.
C2_DegradedSnapshotBuilt ==
    \A r \in DOMAIN runs :
        DegradedTwoHabits(runs[r]) /\ runs[r].pc # "build" =>
            /\ runs[r].error # "ValidationError"
            /\ runs[r].analytics # <<>>
            /\ runs[r].analytics.individualHabitKeyInsights =
                   runs[r].individual_habit_key_insights

\* C3: no generator raises to the orchestrator, whatever fails in its
\* external call: client set-up, request or parsing.
C3_GeneratorsNeverRaise ==
    \A r \in DOMAIN runs : runs[r].error # "OpenAIError"

\* C4: a user whose habits all have an empty completion history is skipped:
\* no external call is made and no snapshot is appended for the user.
C4_EmptyHistoriesSkipped ==
    \A k \in 1..Len(log) : RawHabitCount(log[k].user) > 0 => HasHistory(log[k].user)

\* C5: for a user with zero habits the run makes no external call and the
\* user's analytics history keeps only what it held before the run.
C5_NoHabitsNoCalls ==
    \A u \in UserIds :
        RawHabitCount(u) = 0 =>
            /\ \A k \in 1..Len(log) : log[k].user # u
            /\ \A k \in 1..Len(History(u)) : History(u)[k] = OldSnapshot

\* C5 witness: a finished run that went past an eligible user with zero
\* habits and made calls for another user.
C5_Witness ==
    \E r \in DOMAIN runs :
        /\ runs[r].pc = "done"
        /\ log # <<>>
        /\ \E k \in 1..Len(runs[r].premium_users) :
              RawHabitCount(runs[r].premium_users[k]) = 0

\* C9: one run appends at most one snapshot to any single user's history.
C9_OneSnapshotPerUser ==
    \A r \in DOMAIN runs : \A u \in UserIds :
        Cardinality(Entries(r, u, "append")) <= 1

\* the snapshots of a history that a run appended (an earlier run's snapshot
\* has publish time 0, a run's the positive number of events logged before it)
Appended(history) == SelectSeq(history, LAMBDA a : a.publishedAt > 0)

\* C11: the append is all-or-nothing per user: a step that stops the
\* processing of a user with an error, and every step of the pass before the
\* append completes, writes nothing to the analytics collection; the only
\* step that changes it is the completed append, so a user whose pass ended
\* in an error has the history the pass found, one appended snapshot per
\* completed append and nothing else.
C11_AllOrNothing ==
    /\ [][analytics_collection' # analytics_collection =>
             \E r \in DOMAIN runs :
                 /\ runs[r].pc = "append"
                 /\ runs'[r].pc = "loop"
                 /\ runs'[r].idx = runs[r].idx + 1]_vars
    /\ [](\A r \in DOMAIN runs : \A u \in UserIds :
             Len(Appended(History(u))) = Cardinality(Entries(r, u, "append")))

\* C11 witness: the append of u1's pass raised after every insight map was
\* gathered and the snapshot built, and u1's history is the one earlier
\* snapshot it held before the run.
C11_Witness ==
    \E r \in DOMAIN runs :
        /\ runs[r].pc = "aborted"
        /\ runs[r].error = "StorageError"
        /\ CurrentUser(r) = "u1"
        /\ runs[r].analytics # <<>>
        /\ runs[r].individual_habit_key_insights # <<>>
        /\ History("u1") = <<OldSnapshot>>

IsPrefix(a, b) == Len(a) <= Len(b) /\ SubSeq(b, 1, Len(a)) = a

\* the names of a user's stored habits in the order of the merged list:
\* personal habits first, then group habits
HabitNames(u) ==
    LET stored == RawPersonalHabits(u) \o RawGroupHabits(u)
    IN [k \in 1..Len(stored) |-> stored[k].name]

\* the four calls for one habit, in the order of the claim
HabitCalls(u, name) ==
    << <<"individual_habit_key_insights", u, name>>,
       <<"success_failure_patterns", u, name>>,
       <<"actionable_recommendations", u, name>>,
       <<"correlation_insights", u, name>> >>

\* the calls and the append of one pass over a processed user
PassCalls(u) ==
    <<<<"aggregate_key_insights", u, "*">>>>
        \o Flatten([k \in 1..Len(HabitNames(u)) |->
                        HabitCalls(u, HabitNames(u)[k])])
        \o <<<<"append", u, "*">>>>

\* the calls and appends run r has logged, in order, delays left out
Logged(r) ==
    LET mine == SelectSeq(log, LAMBDA e : e.run = r /\ e.op # "sleep")
    IN [k \in 1..Len(mine) |-> <<mine[k].op, mine[k].user, mine[k].habit>>]

\* the position in `calls` where the pass holding position k starts: after
\* the last append before k
PassStart(calls, k) ==
    LET appends == {a \in 1..(k - 1) : calls[a][1] = "append"}
    IN IF appends = {} THEN 1 ELSE Max(appends) + 1

\* the call or append at position k stands, within its pass, where PassCalls
\* has it
InPlace(calls, k) ==
    LET start == PassStart(calls, k)
        pass == PassCalls(calls[start][2])
    IN /\ k - start + 1 <= Len(pass)
       /\ calls[k] = pass[k - start + 1]

\* C12: for each processed user the external calls happen in a fixed order:
\* aggregate_key_insights once and first; then, habit by habit in list
\* order, the four calls individual_habit_key_insights,
\* success_failure_patterns, actionable_recommendations,
\* correlation_insights; the append only after the four calls of the last
\* habit. Every logged call or append stands, within its pass, where that
\* sequence has it, and a run that returns has closed its last pass.
C12_FixedOrder ==
    \A r \in DOMAIN runs :
        LET calls == Logged(r)
        IN /\ \A k \in 1..Len(calls) : InPlace(calls, k)
           /\ runs[r].pc = "done" /\ calls # <<>> =>
                 calls[Len(calls)][1] = "append"

\* C12 witness: a finished run that processed a user with two habits of
\* different names: aggregate, eight per-habit calls, append.
C12_Witness ==
    \E r \in DOMAIN runs :
        /\ runs[r].pc = "done"
        /\ Len(HabitNames("u1")) = 2
        /\ HabitNames("u1")[1] # HabitNames("u1")[2]
        /\ IsPrefix(PassCalls("u1"), Logged(r))
        /\ Len(PassCalls("u1")) = 10

\* the operations of the log that are external generator calls
CallOps == {"aggregate_key_insights", "individual_habit_key_insights",
            "success_failure_patterns", "actionable_recommendations",
            "correlation_insights"}

\* the log positions of the pass that the append at position k closes: the
\* entries of its run after the run's previous append
PassBefore(k) ==
    LET earlier == {a \in 1..(k - 1) :
                       log[a].op = "append" /\ log[a].run = log[k].run}
        from == IF earlier = {} THEN 1 ELSE Max(earlier) + 1
    IN {j \in from..(k - 1) : log[j].run = log[k].run}

\* C13: a pacing delay follows every external generator call, successful or
\* failed, before the next call or the append: the entry after a call is the
\* delay of the same run and user, every delay stands right after a call,
\* and a pass closed by its append holds as many delays as calls, one
\* aggregate call plus four per habit.
C13_DelayAfterEveryCall ==
    /\ \A k \in 1..Len(log) :
          log[k].op \in CallOps =>
              /\ k < Len(log)
              /\ log[k + 1] = [log[k] EXCEPT !.op = "sleep"]
    /\ \A k \in 1..Len(log) :
          log[k].op = "sleep" => k > 1 /\ log[k - 1].op \in CallOps
    /\ \A k \in 1..Len(log) :
          log[k].op = "append" =>
              LET calls == {j \in PassBefore(k) : log[j].op \in CallOps}
                  delays == {j \in PassBefore(k) : log[j].op = "sleep"}
              IN /\ Cardinality(calls) = 1 + 4 * Len(HabitNames(log[k].user))
                 /\ Cardinality(delays) = Cardinality(calls)

\* C13 witness: a pass of nine calls and nine delays was closed by its append
\* although one of the calls had failed (its [] was overwritten under a name
\* two habits share, so the snapshot was still valid).
C13_Witness ==
    /\ faults > 0
    /\ \E k \in 1..Len(log) :
          /\ log[k].op = "append"
          /\ Cardinality({j \in PassBefore(k) : log[j].op = "sleep"}) >= 9

\* the log positions of the external calls of run r
CallsOf(r) == {k \in 1..Len(log) : log[k].run = r /\ log[k].op \in CallOps}

\* the log positions of the appends of run r
AppendsOf(r) == {k \in 1..Len(log) : log[k].run = r /\ log[k].op = "append"}

\* C14: within one run users are processed one after another and habits one
\* after another: a run stands at one call at a time, the calls it has made
\* since its last append are all for the user it is at, and between two of
\* its calls for different users lies its append for the first of them, so
\* no call for a later user starts before the previous user's pass is over.
C14_OneAtATime ==
    \A r \in DOMAIN runs :
        /\ \A i, j \in CallsOf(r) :
              i < j /\ log[i].user # log[j].user =>
                  \E a \in AppendsOf(r) :
                      i < a /\ a < j /\ log[a].user = log[i].user
        /\ runs[r].pc \in SyncPcs \cup {"append"} =>
              \A k \in CallsOf(r) :
                  (\A a \in AppendsOf(r) : a < k) => log[k].user = CurrentUser(r)
        /\ Cardinality(AppendsOf(r)) <= runs[r].idx - 1

\* C14 witness: a run that processed u1 and then u2, each with its calls and
\* its append, and returned.
C14_Witness ==
    \E r \in DOMAIN runs :
        /\ runs[r].pc = "done"
        /\ runs[r].premium_users = <<"u1", "u2">>
        /\ \E a, b \in AppendsOf(r) :
              /\ a < b
              /\ log[a].user = "u1"
              /\ log[b].user = "u2"
              /\ \E k \in CallsOf(r) : a < k /\ k < b

\* the users with at least one subscription record of status "active"
ActiveUsers ==
    {subscription_collection[k].userId : k \in
        {k \in 1..Len(subscription_collection) :
            subscription_collection[k].status = "active"}}

\* C15: get_premium_users returns the distinct user ids with at least one
\* active subscription record: every such user, no user whose records are
\* all non-active, and no id twice.
C15_DistinctActiveUsers ==
    \A r \in DOMAIN runs :
        runs[r].pc # "idle" =>
            LET users == runs[r].premium_users
            IN /\ {users[k] : k \in 1..Len(users)} = ActiveUsers
               /\ \A a, b \in 1..Len(users) : users[a] = users[b] => a = b

\* the positions of the per-habit loop and the dict each of them fills
HabitPcs == {"individual", "patterns", "recommendations", "correlations"}

DictAt(frame, pc) ==
    CASE pc = "individual" -> frame.individual_habit_key_insights
      [] pc = "patterns" -> frame.success_failure_patterns
      [] pc = "recommendations" -> frame.actionable_recommendations
      [] pc = "correlations" -> frame.correlation_insights

\* dict `new` is dict `old` with res as the one entry under name, every
\* other entry as it was
StoredOver(old, new, name, res) ==
    /\ Cardinality({k \in 1..Len(new) : new[k][1] = name}) = 1
    /\ Get(new, name) = res
    /\ Len(new) = IF HasKey(old, name) THEN Len(old) ELSE Len(old) + 1
    /\ \A k \in 1..Len(old) : old[k][1] # name => new[k] = old[k]

\* the names of the habits of a frame
FrameNames(frame) == {frame.habits[k].name : k \in 1..Len(frame.habits)}

C18_WritesOnlyAnalytics ==
    [][runs' # runs =>
          /\ subscription_collection' = subscription_collection
          /\ habit_collection' = habit_collection
          /\ group_collection' = group_collection
          /\ user_collection' = user_collection]_vars

\* C18 witness: a run that read u1's personal habits and group habit,
\* skipped or processed every user and returned after an append, with the
\* stores it read still holding the raw, sparse completions.
C18_Witness ==
    \E r \in DOMAIN runs :
        /\ runs[r].pc = "done"
        /\ AppendsOf(r) # {}
        /\ RawPersonalHabits("u1") = <<Exercise, Water>>
        /\ RawGroupHabits("u1") = <<Read>>
        /\ \E k \in 1..Len(runs[r].premium_users) :
              runs[r].premium_users[k] = "u1"

\* the names of a habit list, in order, each once: the keys a per-habit map
\* gets from it
RECURSIVE NameKeys(_)
NameKeys(habits) ==
    IF habits = <<>> THEN <<>>
    ELSE LET rest == NameKeys(SubSeq(habits, 1, Len(habits) - 1))
             name == habits[Len(habits)].name
         IN IF \E k \in 1..Len(rest) : rest[k] = name THEN rest
            ELSE Append(rest, name)

\* C19: for each pass over a user the habit data is read once, the personal
\* document and then the groups, before the first external call: the list
\* of the frame changes only at those two reads, the group read keeps what
\* the personal read returned, and what HTTP requests write to the stored
\* habits afterwards does not change the list the calls and the snapshot
\* are made from: the pass's calls and the snapshot's keys are those of the
\* list read.
C19_ReadOnceBeforeCalls ==
    /\ [][\A r \in DOMAIN runs :
             /\ runs'[r].habits # runs[r].habits =>
                   runs[r].pc \in {"loop", "fetch_group"}
             /\ runs[r].pc = "fetch_group" =>
                   IsPrefix(runs[r].habits, runs'[r].habits)]_vars
    /\ [](\A r \in DOMAIN runs :
             runs[r].pc = "append" =>
                 /\ KeySeq(runs[r].analytics.individualHabitKeyInsights)
                       = NameKeys(runs[r].habits)
                 /\ KeySeq(runs[r].analytics.correlationInsights)
                       = NameKeys(runs[r].habits)
                 /\ Cardinality({k \in CallsOf(r) :
                                    \A a \in AppendsOf(r) : a < k})
                       = 1 + 4 * Len(runs[r].habits))

\* C19 witness: u1's pass has read Exercise and Water and built its snapshot
\* from them, and a toggle and a deletion answered 200 since the personal
\* read have left another habit list in the store.
C19_Witness ==
    \E r \in DOMAIN runs :
        /\ runs[r].pc = "append"
        /\ CurrentUser(r) = "u1"
        /\ Len(runs[r].habits) >= 2
        /\ runs[r].habits[1].name = "Exercise"
        /\ runs[r].habits[2].name = "Water"
        /\ Get(runs[r].habits[1].completions, isoformat(Today - 1)) = False
        /\ RawPersonalHabits("u1") =
              <<[Exercise EXCEPT !.completions =
                    SetItem(@, isoformat(Today - 1), True)]>>
        /\ \A q \in DOMAIN reqs : reqs[q].status = 200

(***************************************************************************)
(* Properties of the analytics history.                                    *)
(***************************************************************************)
AllIds == {ObjectIds[k] : k \in 1..Len(ObjectIds)}

\* C10: over any sequence of runs and HTTP requests a user's history is
\* append-only: a step leaves it as it is or adds one snapshot at its end (in
\* a document created when there was none), every older snapshot unchanged
\* and in place.
C10_AppendOnly ==
    [][\A u \in AllIds :
          /\ IsPrefix(HistoryIn(analytics_collection, u),
                      HistoryIn(analytics_collection', u))
          /\ Len(HistoryIn(analytics_collection', u))
                <= Len(HistoryIn(analytics_collection, u)) + 1]_vars

\* C10 witness: u1's earlier snapshot is followed by the one this run
\* appended, u2's document was created by the append, and a user created
\* meanwhile by create_user has an empty history document.
C10_Witness ==
    /\ Len(History("u1")) = 2
    /\ History("u1")[1] = OldSnapshot
    /\ History("u1")[2].publishedAt > 0
    /\ Len(History("u2")) = 1
    /\ \E k \in 1..Len(analytics_collection) :
          /\ analytics_collection[k].userId = "u3"
          /\ analytics_collection[k].analytics = <<>>

\* the log positions of the appends for user u, of any run
AppendsFor(u) == {k \in 1..Len(log) : log[k].op = "append" /\ log[k].user = u}

\* C20: when two runs overlap, their appends to one user's history may
\* interleave in either order, but each append is one atomic upsert-and-push
\* and none is lost or merged: at every moment, and so after both runs have
\* finished, a user's history holds one snapshot per append performed, each
\* a different one, after what it held before, and the user has at most one
\* history document.
C20_NoAppendLost ==
    \A u \in UserIds :
        /\ Cardinality({k \in 1..Len(analytics_collection) :
                           analytics_collection[k].userId = u}) <= 1
        /\ Len(Appended(History(u))) = Cardinality(AppendsFor(u))
        /\ \A a, b \in 1..Len(History(u)) :
              History(u)[a] = History(u)[b] => a = b
        /\ \A a \in 1..Len(History(u)) :
              History(u)[a].publishedAt = 0 => a = 1

\* C20 witness: both runs have returned; run 1 built its snapshot for u1
\* first and run 2 appended first, so u1's history holds the earlier
\* snapshot, then run 2's, then run 1's.
C20_Witness ==
    /\ \A r \in DOMAIN runs : runs[r].pc = "done"
    /\ Len(runs) = 2
    /\ Len(History("u1")) = 3
    /\ History("u1")[1] = OldSnapshot
    /\ History("u1")[2].publishedAt > History("u1")[3].publishedAt
    /\ \E a, b \in AppendsFor("u1") :
          a < b /\ log[a].run = 2 /\ log[b].run = 1

(***************************************************************************)
(* Properties of the HTTP handlers.                                        *)
(***************************************************************************)
\* the number of documents of a collection for user id
DocsOf(collection, id) ==
    Cardinality({k \in 1..Len(collection) : collection[k].userId = id})

\* C28: no two stored users share an email, after any sequence of
\* create_user calls, two calls with the same email whose existence check
\* and insert interleave included; a call for a registered email answers 400
\* and inserts nothing, and every user a successful call created has exactly
\* one habits document and one analytics document.
C28_UniqueEmails ==
    /\ \A a, b \in 1..Len(user_collection) :
          user_collection[a].email = user_collection[b].email => a = b
    /\ \A q \in DOMAIN reqs :
          reqs[q].op = "create_user" /\ reqs[q].pc = "responded" =>
              IF reqs[q].status = 400 THEN reqs[q].id = ""
              ELSE /\ DocsOf(habit_collection, reqs[q].id) = 1
                   /\ DocsOf(analytics_collection, reqs[q].id) = 1

\* user u has a stored habit with the id
HasHabit(u, habit_id) ==
    \E k \in 1..Len(RawPersonalHabits(u)) : RawPersonalHabits(u)[k].id = habit_id

\* the habit of the list with the id, with completions[date] taken out
Except(habits, habit_id, date) ==
    [k \in 1..Len(habits) |->
        IF habits[k].id = habit_id
        THEN [habits[k] EXCEPT !.completions =
                 SelectSeq(@, LAMBDA item : item[1] # date)]
        ELSE habits[k]]

\* C27: toggle_habit_completion answers 404 only when the user has no habit
\* with the id; for an existing habit it succeeds for every requested value,
\* also one equal to the stored one, and afterwards completions[date] of the
\* habit is the requested value, every other date and every other habit of
\* the user as before. The requests toggled are for u1, habit h1 or h2, the
\* date today-1 and the value true.
C27_ToggleSucceeds ==
    [][\A q \in DOMAIN reqs :
          reqs[q].pc = "idle" /\ reqs'[q].op = "toggle_habit_completion" =>
              /\ reqs'[q].status = 404 =>
                    ~(HasHabit("u1", "h1") /\ HasHabit("u1", "h2"))
              /\ reqs'[q].status = 200 =>
                    \E id \in {"h1", "h2"} :
                        /\ HasHabit("u1", id)
                        /\ Except(RawPersonalHabits("u1")', id,
                                   isoformat(Today - 1))
                              = Except(RawPersonalHabits("u1"), id,
                                       isoformat(Today - 1))
                        /\ \E k \in 1..Len(RawPersonalHabits("u1")') :
                              /\ RawPersonalHabits("u1")'[k].id = id
                              /\ Get(RawPersonalHabits("u1")'[k].completions,
                                     isoformat(Today - 1)) = True]_vars

(***************************************************************************)
(* Properties of the webhook.                                              *)
(***************************************************************************)
\* the positions of the log at which an event of the type for the customer
\* was taken up
TakenUp(op, customer) ==
    {k \in 1..Len(log) : log[k].op = op /\ log[k].customer = customer}

\* the checkout.session.completed events for the customer taken up before
\* position j with no restart in between
PendingBefore(customer, j) ==
    {k \in TakenUp("checkout.session.completed", customer) :
        k < j /\ \A m \in (k + 1)..(j - 1) : log[m].op # "restart"}

\* the records of the customer
RecordsOf(customer) ==
    {k \in 1..Len(subscription_collection) :
        subscription_collection[k].stripeId = customer}

\* C24, in every state: a record of a customer was inserted for a
\* customer.subscription.created event taken up after a
\* checkout.session.completed event for the customer (the process not
\* restarted in between), and it carries the user id of the latest such
\* event; a handler past its insert has its record in the collection; and
\* when no created event for the customer came after a checkout, there is no
\* record for the customer and the entry of the latest checkout is in the
\* mapping, unless the process restarted after it.
CorrelatedRecords ==
    \A c \in Customers :
        /\ \A k \in RecordsOf(c) :
              \E j \in TakenUp("customer.subscription.created", c) :
                  /\ log[j].id = subscription_collection[k].stripeSubscriptionId
                  /\ PendingBefore(c, j) # {}
                  /\ subscription_collection[k].userId =
                        log[Max(PendingBefore(c, j))].user
                  /\ subscription_collection[k].userId # "none"
        /\ \A q \in DOMAIN reqs :
              reqs[q].pc = "pop" =>
                  \E k \in RecordsOf(reqs[q].customer) :
                      /\ subscription_collection[k].userId = reqs[q].user_id
                      /\ subscription_collection[k].stripeSubscriptionId =
                            reqs[q].id
        /\ (\A j \in TakenUp("customer.subscription.created", c) :
                PendingBefore(c, j) = {}) =>
              /\ RecordsOf(c) = {}
              /\ PendingBefore(c, Len(log) + 1) # {} =>
                    /\ HasKey(user_id_mapping, c)
                    /\ Get(user_id_mapping, c) =
                          log[Max(PendingBefore(c, Len(log) + 1))].user

\* C24, in every step: the handler that returns from its insert removes the
\* customer's entry, and an entry leaves the mapping only this way or by a
\* restart of the process.
EntryRemovedAfterInsert ==
    /\ \A q \in DOMAIN reqs :
          reqs[q].pc = "pop" /\ reqs'[q].pc # "pop" =>
              ~HasKey(user_id_mapping', reqs[q].customer)
    /\ \A c \in Customers :
          HasKey(user_id_mapping, c) /\ ~HasKey(user_id_mapping', c) =>
              \/ \E q \in DOMAIN reqs :
                    /\ reqs[q].pc = "pop"
                    /\ reqs'[q].pc = "responded"
                    /\ reqs[q].customer = c
              \/ user_id_mapping' = <<>> /\ log'[Len(log')].op = "restart"

\* C24: a subscription record is inserted on customer.subscription.created
\* only if a checkout.session.completed event for the same customer was
\* handled earlier and its entry is still in user_id_mapping; the record
\* carries the user id of the entry, and the entry is removed once the
\* insert has succeeded. If the created event comes first, or after the
\* mapping was lost, no record is created for the customer, then or when the
\* checkout event comes later, and the later entry stays in the mapping.
C24_RecordNeedsPendingCheckout ==
    []CorrelatedRecords /\ [][EntryRemovedAfterInsert]_vars

\* C24 witness: checkout.session.completed for c1 with user u1, then
\* customer.subscription.created: the record of u1 is stored, the handler
\* has answered and the entry is gone.
C24_Witness ==
    /\ \E k \in RecordsOf("c1") :
          subscription_collection[k].userId = "u1"
    /\ \E q \in DOMAIN reqs :
          /\ reqs[q].op = "customer.subscription.created"
          /\ reqs[q].pc = "responded"
          /\ reqs[q].status = 200
          /\ reqs[q].user_id = "u1"
    /\ ~HasKey(user_id_mapping, "c1")
    /\ \A k \in 1..Len(log) : log[k].op # "restart"

\* the event types whose handler sets the status of a stored subscription
StatusEvents ==
    {"customer.subscription.updated", "customer.subscription.deleted",
     "customer.subscription.paused", "customer.subscription.resumed",
     "invoice.paid"}

\* the status the claim gives for the event of a log entry
StatusOf(entry) ==
    CASE entry.op = "customer.subscription.deleted" -> "canceled"
      [] entry.op = "customer.subscription.paused" -> "paused"
      [] entry.op = "invoice.paid" -> "active"
      [] OTHER -> entry.state

\* the users with a subscription record of status active
UsersActive(collection) ==
    {collection[k].userId :
        k \in {m \in 1..Len(collection) : collection[m].status = "active"}}

\* the status-setting events for subscription id taken up after position i
StatusEventsAfter(id, i) ==
    {m \in (i + 1)..Len(log) : log[m].op \in StatusEvents /\ log[m].id = id}

\* the position of the log at which the record of the user for the
\* subscription was inserted, 0 for a record older than the log
InsertedAt(user, id) ==
    LET at == {m \in 1..Len(log) : /\ log[m].op = "insert_one"
                                   /\ log[m].user = user
                                   /\ log[m].id = id}
    IN IF at = {} THEN 0 ELSE Max(at)

\* C25, in every step: the status of a stored subscription changes only in
\* the step of a status-setting event for its id, and to the status of that
\* event; no record is removed.
StatusFromLastEvent ==
    /\ Len(subscription_collection') >= Len(subscription_collection)
    /\ \A k \in 1..Len(subscription_collection) :
          LET id == subscription_collection[k].stripeSubscriptionId
              event == log'[Len(log')]
          IN subscription_collection'[k].status =
                IF /\ Len(log') = Len(log) + 1
                   /\ event.op \in StatusEvents
                   /\ event.id = id
                   /\ \A m \in 1..(k - 1) :
                         subscription_collection[m].stripeSubscriptionId # id
                THEN StatusOf(event)
                ELSE subscription_collection[k].status

\* C25, in the step of the scan: the users the run takes up are those with
\* an active subscription, and a user with one subscription record for
\* which status-setting events were handled is taken up exactly when the
\* last of these events set active.
EligibleAtScan ==
    \A r \in DOMAIN runs :
        runs[r].pc = "idle" /\ runs'[r].pc = "loop" =>
            LET taken == {runs'[r].premium_users[i] :
                             i \in 1..Len(runs'[r].premium_users)}
            IN /\ taken = UsersActive(subscription_collection)
               /\ \A k \in 1..Len(subscription_collection) :
                     LET user == subscription_collection[k].userId
                         id == subscription_collection[k].stripeSubscriptionId
                         events == StatusEventsAfter(id, InsertedAt(user, id))
                     IN (/\ \A m \in 1..Len(subscription_collection) :
                              subscription_collection[m].userId = user => m = k
                         /\ events # {}) =>
                            (user \in taken <=>
                                StatusOf(log[Max(events)]) = "active")

\* C25, in every state: a finished run has taken up every user of its scan.
ScannedUsersTaken ==
    \A r \in DOMAIN runs :
        runs[r].pc = "done" => runs[r].idx = Len(runs[r].premium_users) + 1

Returned(r) == runs[r].pc \in {"done", "aborted"}

\* C23, in every step: a run that is in a call that does not return stays
\* where it is: its user, its habit and its results do not change, nothing
\* is appended to a history and no further call is made.
HungRunStays ==
    \A r \in DOMAIN runs :
        runs[r].pc = "hung" =>
            /\ runs'[r] = runs[r]
            /\ analytics_collection' = analytics_collection
            /\ log' = log

\* The work a run has left, as a tuple compared from the left: whether it
\* has started and not ended, the users left, the part of the user's pass,
\* the habits left and the calls left for the habit.
Rank(frame) ==
    LET users == Len(frame.premium_users) + 1 - frame.idx
        habits == Len(frame.habits) + 1 - frame.h
    IN CASE frame.pc = "idle" -> <<2, 0, 0, 0, 0>>
         [] frame.pc = "loop" -> <<1, users, 3, 0, 0>>
         [] frame.pc = "fetch_group" -> <<1, users, 2, 0, 0>>
         [] frame.pc = "aggregate" -> <<1, users, 1, Len(frame.habits) + 1, 0>>
         [] frame.pc = "individual" -> <<1, users, 1, habits, 4>>
         [] frame.pc = "patterns" -> <<1, users, 1, habits, 3>>
         [] frame.pc = "recommendations" -> <<1, users, 1, habits, 2>>
         [] frame.pc = "correlations" -> <<1, users, 1, habits, 1>>
         [] frame.pc = "build" -> <<1, users, 1, 0, 2>>
         [] frame.pc = "append" -> <<1, users, 1, 0, 1>>
         [] OTHER -> <<0, 0, 0, 0, 0>>

\* a comes before b, comparing from the left
LexLess(a, b) ==
    \E k \in 1..Len(a) :
        a[k] < b[k] /\ \A m \in 1..(k - 1) : a[m] = b[m]

\* C23, in every state: no part of the work left is negative.
WorkLeftBounded ==
    \A r \in DOMAIN runs : \A k \in 1..5 : Rank(runs[r])[k] >= 0

\* C23, in every step: the step is the step of a run, and the run has less
\* work left after it.
WorkLeftDecreases ==
    \E r \in DOMAIN runs : LexLess(Rank(runs'[r]), Rank(runs[r]))

\* C23: a run over finitely many eligible users and habits terminates
\* provided every external call and every storage operation returns, with a
\* result or an error: each operation that returns takes the run one step
\* on, and the run can take finitely many steps only, since every step
\* leaves it less work and the work left is never negative. If an external
\* call never returns, the run makes no further progress: no later habit or
\* user is processed and no further snapshot is appended.
C23_TerminatesUnlessHung ==
    /\ []WorkLeftBounded
    /\ [][WorkLeftDecreases /\ HungRunStays]_vars

\* C23 witness: the run has appended the snapshot of u1 and hangs in the
\* first per-habit call for u2, with a second habit of u2 still to come.
C23_Witness ==
    /\ runs[1].pc = "hung"
    /\ runs[1].premium_users = <<"u1", "u2">>
    /\ runs[1].idx = 2
    /\ runs[1].h = 1
    /\ Len(runs[1].habits) = 2
    /\ Cardinality(AppendsFor("u1")) = 1

\* C23 witness of the other case: the run over two users has returned
\* after the last of them.
C23_Returned ==
    /\ runs[1].pc = "done"
    /\ Len(runs[1].premium_users) = 2

(***************************************************************************)
(* Properties of the group handlers.                                       *)
(***************************************************************************)
\* C26: a group habit holds at most one completion entry per (userId,
\* date): after any sequence of toggle_group_habit_completion calls, also
\* two calls for the same user, habit and date whose remove step and add
\* step interleave, no completions list holds two entries with the same
\* userId and date.
C26_OneEntryPerUserDate ==
    \A g \in 1..Len(group_collection) :
        \A h \in 1..Len(group_collection[g].habits) :
            LET completions == group_collection[g].habits[h].completions
            IN \A a, b \in 1..Len(completions) :
                  (/\ completions[a].userId = completions[b].userId
                   /\ completions[a].date = completions[b].date) => a = b

\* the handlers the claim reserves to the admin
AdminOps == {"update_group", "delete_group", "create_group_habit",
             "update_group_habit", "delete_group_habit"}

\* the user is the adminId of the stored group
IsAdmin(user) ==
    \E k \in 1..Len(group_collection) : group_collection[k].adminId = user

\* the user is in the members of the stored group
IsMember(user) ==
    \E k \in 1..Len(group_collection) :
        \E m \in 1..Len(group_collection[k].members) :
            group_collection[k].members[m] = user

\* a completions list without the entries of the user
OfOthers(completions, user) ==
    SelectSeq(completions, LAMBDA c : c.userId # user)

\* the groups with the completion entries of the user taken out
WithoutEntriesOf(groups, user) ==
    [g \in 1..Len(groups) |->
        [groups[g] EXCEPT !.habits =
            [h \in 1..Len(@) |->
                [@[h] EXCEPT !.completions = OfOthers(@, user)]]]]

\* C29, in every step of a handler of the claim called by the user.
GatedStep(q, op, user) ==
    /\ op \in AdminOps =>
          /\ group_collection' # group_collection => IsAdmin(user)
          /\ reqs[q].pc = "idle" /\ ~IsAdmin(user) =>
                /\ reqs'[q].pc = "responded"
                /\ reqs'[q].status = 404
                /\ group_collection' = group_collection
    /\ op = "toggle_group_habit_completion" =>
          /\ group_collection' # group_collection =>
                /\ IsMember(user)
                /\ WithoutEntriesOf(group_collection', user) =
                      WithoutEntriesOf(group_collection, user)
          /\ reqs[q].pc = "idle" /\ ~IsMember(user) =>
                /\ reqs'[q].pc = "responded"
                /\ reqs'[q].status = 404
                /\ group_collection' = group_collection

\* C29: group changes are gated by role: update_group, delete_group,
\* create_group_habit, update_group_habit and delete_group_habit change a
\* group only when the caller is the group's adminId, and
\* toggle_group_habit_completion changes completions only when the caller
\* is in the group's members; in every other case the call answers 404 and
\* the group document is unchanged, and a toggle only adds or removes
\* completion entries whose userId is the caller's.
C29_GatedByRole ==
    [][\A q \in DOMAIN reqs :
          reqs'[q] # reqs[q] => GatedStep(q, reqs'[q].op, reqs'[q].caller)]_vars

\* C29 witness: u2, who has joined and is not the admin, was answered 404
\* by update_group_habit, and the toggle of u2 has added an entry of u2 next
\* to the entry of u1.
C29_Witness ==
    /\ \E q \in DOMAIN reqs :
          /\ reqs[q].op = "update_group_habit"
          /\ reqs[q].caller = "u2"
          /\ reqs[q].pc = "responded"
          /\ reqs[q].status = 404
    /\ \E q \in DOMAIN reqs :
          /\ reqs[q].op = "toggle_group_habit_completion"
          /\ reqs[q].caller = "u2"
          /\ reqs[q].pc = "responded"
          /\ reqs[q].status = 200
    /\ Len(group_collection) = 1
    /\ group_collection[1].habits[1].completions =
          Yoga.completions \o <<[userId |-> "u2", date |-> ToggleDate,
                                 completed |-> True]>>

====
